---------------------------- MODULE Spec2Model ----------------------------
(***************************************************************************)
(* Rule evaluation engine of the declarative form runtime documented in    *)
(* this repository: schema build, edit propagation over dependentKeys,     *)
(* predicate actions, the visibility gate, and the Master Manager.         *)
(***************************************************************************)
EXTENDS Integers, Sequences, FiniteSets, TLC

VARIABLES
    schema,        \* the schema document handed to build
    mode,          \* runtime mode the engine was started in: "client" | "server"
    phase,         \* "unbuilt" | "rejected" | "built" | "open" | "closed"
    answer,        \* Answer Store: field key -> value (Absent when the key is not stored)
    access,        \* field key -> access state {visibility, mandatory, readOnly}
    options,       \* field key -> current option set of a master-bound dropdown
    editQueue,     \* propagation queue of user edits not yet accepted
    current,       \* the edit whose pass ran last (NoEdit before the first one)
    worklist,      \* fields still to re-evaluate in the running pass
    predIdx,       \* index of the next predicate of Head(worklist)
    fetchPending,  \* field key -> parent value of its pending master fetch (NoFetch if none)
    fetchError,    \* field key -> TRUE when its last master fetch failed
    passCleared,   \* fields whose value a cascade removed during the current pass
    lastFiring,    \* the last APPLY_ACCESS_MATRIX firing: field, matrix and prior access
    validation,    \* field -> Valid, or the error message shown below the field
    diagnostics,   \* non-fatal errors of the current pass: sequence of [key, action, error]
    invalidated,   \* fields whose pending computation a later edit has invalidated
    discarded,     \* fields for which a completed computation's result was dropped
    received,      \* what a compared session was given: accepted edits and fetch results
    twin,          \* inputs and final state of the session run before on the same schema
    memoryCache,       \* MasterManager.memoryCache: LRU list of [key, data], least recent first
    persistentCache,   \* MasterManager.persistentCache: cache key -> entry (NoEntry if none)
    inflightRequests,  \* MasterManager.inflightRequests: cache key -> fetch promise (0 if none)
    promises,          \* fetchMaster promises: id -> [state, config]
    callers,           \* getMaster invocations: caller -> [pc, config, promise, result, via]
    expiries,          \* cache key -> number of times its persistent entry expired
    serverVersion,     \* version of the master on the server
    versionChecked,    \* "recent" | "stale": whether checkInterval has passed since the last check
    fetchVersion,      \* fetch id -> version token of the rows the source answered with (0 before)
    staleFetches,      \* fetch ids whose rows a version check found out of date
    orders,            \* answer of the repeating group: rows of [rate, lineItems: rows of [qty, amount]]
    rowWork,           \* rows whose predicates the running pass has still to fire: index bindings
    rowEdit,           \* the edit the running pass propagates: [key, bindings]
    open,              \* FormBuilder.submitOpen, the open prop of SubmitDialog
    groupId,           \* SubmitDialog state: the Group ID input
    authToken,         \* SubmitDialog state: the Auth Token input
    status,            \* SubmitDialog state: "idle" | "loading" | "success" | "error"
    errorMessage,      \* SubmitDialog state: message of the failed submission
    inflight,          \* handleSubmit calls awaiting the response of their request
    resetTimers,       \* delayed resets scheduled by handleClose and not yet run
    messages,          \* useChat messages: sequence of [id, role, text]
    chatStatus,        \* useChat status: "ready" | "submitted" | "streaming" | "error"
    activeResponse,    \* the assistant message the running request is writing (NoMessage if none)
    input,             \* AIChatPanel state: the text of the message box
    lastProcessedMessageRef,  \* id of the last reply whose schema was applied (0 if none)
    schemaUpdates,     \* calls of onSchemaUpdate so far: sequence of [id, clears]
    clears,            \* number of times the chat was cleared
    currentOperation,  \* WideEvent.currentOperation (NoOperation if null)
    operations,        \* WideEvent.context.operations
    started,           \* number of operations started so far
    emitted            \* number of emit calls so far

formVars == <<schema, twin, received, mode, validation, phase, answer, access, options, editQueue, current, worklist,
              predIdx, fetchPending, fetchError, passCleared, lastFiring,
              diagnostics, invalidated, discarded>>

versionVars == <<serverVersion, versionChecked, fetchVersion, staleFetches>>

masterVars == <<memoryCache, persistentCache, inflightRequests, promises, callers, expiries,
                versionVars>>

rowVars == <<orders, rowWork, rowEdit>>

dialogVars == <<open, groupId, authToken, status, errorMessage, inflight, resetTimers>>

chatVars == <<messages, chatStatus, activeResponse, input, lastProcessedMessageRef, schemaUpdates, clears>>

eventVars == <<currentOperation, operations, started, emitted>>

appVars == <<rowVars, dialogVars, chatVars, eventVars>>

vars == <<formVars, masterVars, appVars>>

(***************************************************************************)
(* Bounds                                                                  *)
(***************************************************************************)
MaxQueue == 2
MaxFetches == 3
MaxExpiries == 1
MemoryCacheSize == 2
MaxVersions == 2

(***************************************************************************)
(* Values                                                                  *)
(***************************************************************************)
Absent == "absent"
NoFetch == "nofetch"
Root == "root"
NoEdit == [key |-> "none", old |-> Absent, new |-> Absent]
NoFiring == [key |-> "none"]
AccessProps == {"visibility", "mandatory", "readOnly"}
\* The literal null a formula can return, and the outcome of a failed evaluation.
Null == "null"
Valid == "valid"
EvalError == "#error"
\* What fetchPending holds for a field awaiting its ASYNC_CALC aggregation.
AsyncCall == "asynccall"
\* What the aggregation backend answers.
AsyncResults == {"120"}

\* Rows of the location master: state column s, district column d, block column b.
MasterRows ==
    { [s |-> "Maharashtra", d |-> "Mumbai",    b |-> "Andheri"],
      [s |-> "Maharashtra", d |-> "Pune",      b |-> "Haveli"],
      [s |-> "Karnataka",   d |-> "Bengaluru", b |-> "Yelahanka"] }

(***************************************************************************)
(* Predicate shapes                                                        *)
(***************************************************************************)
Always == [op |-> "always"]
Eq(f, v) == [op |-> "eq", field |-> f, value |-> v]
Ne(f, v) == [op |-> "ne", field |-> f, value |-> v]
Gt(f, n) == [op |-> "gt", field |-> f, value |-> n]
LeField(f, g) == [op |-> "leField", field |-> f, other |-> g]

ApplyAccessMatrix(c, m) == [action |-> "APPLY_ACCESS_MATRIX", condition |-> c, accessMatrix |-> m]
OptionFilter(f) == [action |-> "OPTION_FILTER", condition |-> Always, field |-> f]
Calc(c, fm) == [action |-> "CALC", condition |-> c, formula |-> fm]
Copy(c, f) == [action |-> "COPY", condition |-> c, field |-> f]
Validate(c, msg) == [action |-> "VALIDATE", condition |-> c, errorMessage |-> msg]
AsyncCalc(k) == [action |-> "ASYNC_CALC", condition |-> Always, key |-> k, operation |-> "SUM"]

\* A predicate carrying one of the two execution-control flags.
ServerOnly(p) == ("skipPredicateExecutionOnClient" :> TRUE) @@ p
ClientOnly(p) == ("skipPredicateExecutionOnServer" :> TRUE) @@ p

Ref(f) == [op |-> "ref", field |-> f]
Flip(f) == [op |-> "flip", field |-> f]
Concat(a, b) == [op |-> "concat", left |-> a, right |-> b]
Mul(a, b) == [op |-> "mul", left |-> a, right |-> b]
MulOrNull(a, b) == [op |-> "mulOrNull", left |-> a, right |-> b]

(***************************************************************************)
(* Schema documents                                                        *)
(***************************************************************************)
AcyclicSchemas == {"chain", "address", "spouseLogic", "spouseRecipe", "vehicle"}
CyclicSchemas == {"selfLoop", "loop2"}
Schemas == AcyclicSchemas \cup CyclicSchemas
\* Schema documents with calculated, asynchronously aggregated and undeclared-trigger fields.
SessionSchemas == {"address", "order", "orderRaw", "report", "toggle", "account", "panel",
                   "booking"}
\* Schema documents run in client and in server mode.
ModeSchemas == {"address", "audit"}

\* schema.order: the keys of the schema, in declared order.
Order(s) ==
    CASE s = "chain"        -> <<"state", "district", "block">>
      [] s = "address"      -> <<"state", "district", "fullAddress">>
      [] s = "spouseLogic"  -> <<"maritalStatus", "spouseName">>
      [] s = "spouseRecipe" -> <<"maritalStatus", "spouseName">>
      [] s = "vehicle"      -> <<"hasVehicle", "owner", "vehicleDetails", "vehicleType",
                                 "registration", "regOwner">>
      [] s = "selfLoop"     -> <<"a">>
      [] s = "loop2"        -> <<"a", "b">>
      [] s = "order"        -> <<"qty", "price", "total">>
      [] s = "orderRaw"     -> <<"qty", "price", "total", "note">>
      [] s = "report"       -> <<"customerId", "totalOrders">>
      [] s = "toggle"       -> <<"trigger", "target">>
      [] s = "account"      -> <<"customerId", "orderSummary", "totalOrders">>
      [] s = "audit"        -> <<"qty", "display", "totalOrders", "note">>
      [] s = "panel"        -> <<"showPanel", "panel", "remark", "adminPanel", "adminNote">>
      [] s = "booking"      -> <<"startDate", "endDate">>

Range(q) == {q[i] : i \in 1..Len(q)}

Fields(s) == Range(Order(s))

AllFields == UNION {Fields(s) : s \in Schemas \cup SessionSchemas \cup ModeSchemas}

\* The container a field is declared in (Root for a top-level field).
ParentOf(s, f) ==
    CASE s = "vehicle" /\ f \in {"vehicleType", "registration"} -> "vehicleDetails"
      [] s = "vehicle" /\ f = "regOwner" -> "registration"
      [] s = "account" /\ f = "totalOrders" -> "orderSummary"
      [] s = "panel" /\ f = "remark" -> "panel"
      [] s = "panel" /\ f = "adminNote" -> "adminPanel"
      [] OTHER -> Root

IsSection(s, f) ==
    \/ s = "vehicle" /\ f \in {"vehicleDetails", "registration"}
    \/ s = "account" /\ f = "orderSummary"
    \/ s = "panel" /\ f \in {"panel", "adminPanel"}

DependentKeys(s, f) ==
    CASE s = "chain" /\ f = "state"            -> <<"district">>
      [] s = "chain" /\ f = "district"         -> <<"block">>
      [] s = "address" /\ f = "state"          -> <<"district", "fullAddress">>
      [] s = "address" /\ f = "district"       -> <<"fullAddress">>
      [] s = "spouseLogic" /\ f = "maritalStatus"  -> <<"spouseName">>
      [] s = "spouseRecipe" /\ f = "maritalStatus" -> <<"spouseName">>
      [] s = "vehicle" /\ f = "hasVehicle"     -> <<"vehicleDetails">>
      [] s = "vehicle" /\ f = "owner"          -> <<"regOwner">>
      [] s = "vehicle" /\ f = "regOwner"       -> <<"vehicleType">>
      [] s = "selfLoop" /\ f = "a"             -> <<"a">>
      [] s = "loop2" /\ f = "a"                -> <<"b">>
      [] s = "loop2" /\ f = "b"                -> <<"a">>
      [] s = "order" /\ f \in {"qty", "price"} -> <<"total">>
      [] s = "orderRaw" /\ f = "qty"           -> <<"total", "note">>
      [] s = "orderRaw" /\ f = "price"         -> <<"discount", "total">>
      [] s = "report" /\ f = "customerId"      -> <<"totalOrders">>
      [] s = "account" /\ f = "customerId"     -> <<"totalOrders", "orderSummary">>
      [] s = "audit" /\ f = "qty"              -> <<"display", "totalOrders", "note">>
      [] s = "panel" /\ f = "showPanel"        -> <<"panel">>
      [] s = "booking" /\ f = "startDate"      -> <<"endDate">>
      [] OTHER -> <<>>

Predicates(s, f) ==
    CASE s = "chain" /\ f = "district"   -> <<OptionFilter("state")>>
      [] s = "chain" /\ f = "block"      -> <<OptionFilter("district")>>
      [] s = "address" /\ f = "district" -> <<OptionFilter("state")>>
      [] s = "address" /\ f = "fullAddress" ->
            <<Calc(Always, Concat("state", "district"))>>
      [] s = "spouseLogic" /\ f = "spouseName" ->
            << ApplyAccessMatrix(Eq("maritalStatus", "Married"),
                                 [visibility |-> "VISIBLE", mandatory |-> TRUE]),
               ApplyAccessMatrix(Ne("maritalStatus", "Married"),
                                 [visibility |-> "GONE"]) >>
      [] s = "spouseRecipe" /\ f = "spouseName" ->
            << ApplyAccessMatrix(Eq("maritalStatus", "Married"),
                                 [visibility |-> "VISIBLE", mandatory |-> TRUE]),
               ApplyAccessMatrix(Ne("maritalStatus", "Married"),
                                 [visibility |-> "GONE", mandatory |-> FALSE]) >>
      [] s = "vehicle" /\ f = "vehicleDetails" ->
            << ApplyAccessMatrix(Eq("hasVehicle", "Yes"), [visibility |-> "VISIBLE"]),
               ApplyAccessMatrix(Ne("hasVehicle", "Yes"), [visibility |-> "GONE"]) >>
      [] s = "vehicle" /\ f = "regOwner" ->
            << ApplyAccessMatrix(Always, [visibility |-> "VISIBLE"]),
               Copy(Always, "owner") >>
      [] s = "selfLoop" /\ f = "a" -> <<Calc(Always, Flip("a"))>>
      [] s = "loop2" /\ f = "a"    -> <<Calc(Always, Flip("b"))>>
      [] s = "loop2" /\ f = "b"    -> <<Copy(Always, "a")>>
      [] s = "order" /\ f = "total" ->
            << Calc(Always, MulOrNull("qty", "price")),
               ApplyAccessMatrix(Eq("total", "150"), [mandatory |-> TRUE]),
               ApplyAccessMatrix(Ne("total", "150"), [mandatory |-> FALSE]) >>
      [] s = "orderRaw" /\ f = "total" -> <<Calc(Always, Mul("qty", "price"))>>
      [] s = "orderRaw" /\ f = "note" ->
            << ApplyAccessMatrix(Gt("qty", 2), [mandatory |-> TRUE]),
               Copy(Always, "qty") >>
      [] s = "report" /\ f = "totalOrders" ->
            << AsyncCalc("amount"),
               ApplyAccessMatrix(Eq("totalOrders", "120"), [mandatory |-> TRUE]),
               ApplyAccessMatrix(Ne("totalOrders", "120"), [mandatory |-> FALSE]) >>
      [] s = "account" /\ f = "orderSummary" ->
            << ApplyAccessMatrix(Eq("customerId", "c1"), [visibility |-> "VISIBLE"]),
               ApplyAccessMatrix(Ne("customerId", "c1"), [visibility |-> "GONE"]) >>
      [] s = "account" /\ f = "totalOrders" -> <<AsyncCalc("amount")>>
      [] s = "audit" /\ f = "display" ->
            <<ClientOnly(Calc(Always, Ref("qty")))>>
      [] s = "audit" /\ f = "totalOrders" ->
            <<ServerOnly(AsyncCalc("amount"))>>
      [] s = "audit" /\ f = "note" ->
            << ServerOnly(ApplyAccessMatrix(Gt("qty", 2), [mandatory |-> TRUE])),
               Copy(Always, "qty") >>
      [] s = "panel" /\ f = "panel" ->
            << ApplyAccessMatrix(Eq("showPanel", "Yes"), [visibility |-> "VISIBLE"]),
               ApplyAccessMatrix(Ne("showPanel", "Yes"), [visibility |-> "INVISIBLE"]) >>
      [] s = "toggle" /\ f = "target" ->
            << ApplyAccessMatrix(Eq("trigger", "Yes"), [visibility |-> "VISIBLE"]),
               ApplyAccessMatrix(Ne("trigger", "Yes"), [visibility |-> "GONE"]) >>
      [] s = "booking" /\ f = "endDate" ->
            << ApplyAccessMatrix(Always, [mandatory |-> TRUE]),
               Validate(LeField("endDate", "startDate"),
                        "End date must be after start date") >>
      [] OTHER -> <<>>

\* The accessMatrix a field declares (defaults: VISIBLE, not mandatory, editable).
DefaultAccess(s, f) ==
    CASE s = "spouseRecipe" /\ f = "spouseName" ->
            [visibility |-> "GONE", mandatory |-> FALSE, readOnly |-> FALSE]
      [] s = "vehicle" /\ f = "vehicleDetails" ->
            [visibility |-> "GONE", mandatory |-> FALSE, readOnly |-> FALSE]
      [] s = "panel" /\ f = "panel" ->
            [visibility |-> "VISIBLE", mandatory |-> TRUE, readOnly |-> TRUE]
      [] OTHER -> [visibility |-> "VISIBLE", mandatory |-> FALSE, readOnly |-> FALSE]

\* accessMatrix.roles: the roles a field declares (every role when it declares none).
AllRoles == {"ADMIN", "USER"}

Roles(s, f) ==
    CASE s = "panel" /\ f = "adminPanel" -> {"ADMIN"}
      [] s = "panel" /\ f = "adminNote"  -> {"USER"}
      [] OTHER -> AllRoles

\* The role of the user filling the form.
UserRole == "USER"

\* columnKey of a field bound to the location master ("none" when unbound).
ColumnKey(s, f) ==
    CASE s \in {"chain", "address"} /\ f = "state"    -> "s"
      [] s \in {"chain", "address"} /\ f = "district" -> "d"
      [] s = "chain" /\ f = "block"                   -> "b"
      [] OTHER -> "none"

\* enum of a field with a static option list, or what a text field is typed into.
Enum(s, f) ==
    CASE s \in {"spouseLogic", "spouseRecipe"} /\ f = "maritalStatus" -> {"Married", "Single"}
      [] s \in {"spouseLogic", "spouseRecipe"} /\ f = "spouseName"    -> {"Asha"}
      [] s = "vehicle" /\ f = "hasVehicle"  -> {"Yes", "No"}
      [] s = "vehicle" /\ f = "owner"       -> {"Asha"}
      [] s = "vehicle" /\ f = "vehicleType" -> {"Car"}
      [] s = "vehicle" /\ f = "regOwner"    -> {"Ravi"}
      [] s \in CyclicSchemas                -> {"yes", "no"}
      [] s \in {"order", "orderRaw", "audit"} /\ f = "qty" -> {"2", "3"}
      [] s \in {"order", "orderRaw"} /\ f = "price" -> {"50"}
      [] s \in {"report", "account"} /\ f = "customerId" -> {"c1", "c2"}
      [] s = "report" /\ f = "totalOrders" -> {"7"}
      [] s = "toggle" /\ f = "trigger"     -> {"Yes", "No"}
      [] s = "toggle" /\ f = "target"      -> {"x"}
      [] s = "panel" /\ f = "showPanel"    -> {"Yes", "No"}
      [] s = "panel" /\ f = "remark"       -> {"x"}
      [] s = "panel" /\ f = "adminNote"    -> {"y"}
      [] s = "booking"                     -> {"2", "3"}
      [] OTHER -> {}


(***************************************************************************)
(* Expression Evaluator                                                    *)
(***************************************************************************)
\* The number a stored value denotes, and the value a number is stored as.
NumberOf(v) ==
    CASE v = "2"   -> 2
      [] v = "3"   -> 3
      [] v = "50"  -> 50
      [] v = "100" -> 100
      [] v = "150" -> 150

FormatNumber(n) ==
    CASE n = 2   -> "2"
      [] n = 3   -> "3"
      [] n = 50  -> "50"
      [] n = 100 -> "100"
      [] n = 150 -> "150"

\* A numeric comparison needs an operand: on a missing value the evaluation fails.
ConditionFails(c, ans) ==
    \/ c.op = "gt" /\ ans[c.field] = Absent
    \/ c.op = "leField" /\ Absent \in {ans[c.field], ans[c.other]}

\* A condition evaluated against the answer; a missing value compares as unequal.
Holds(c, ans) ==
    CASE c.op = "always" -> TRUE
      [] c.op = "eq"     -> ans[c.field] = c.value
      [] c.op = "ne"     -> ans[c.field] # c.value
      [] c.op = "gt"     -> NumberOf(ans[c.field]) > c.value
      [] c.op = "leField" -> NumberOf(ans[c.field]) <= NumberOf(ans[c.other])

\* A CALC formula evaluated against the answer: a value, Null, or EvalError
\* when an arithmetic operand is missing.
Eval(fm, ans) ==
    CASE fm.op = "ref"    -> ans[fm.field]
      [] fm.op = "flip"   -> IF ans[fm.field] = "yes" THEN "no" ELSE "yes"
      [] fm.op = "concat" -> ans[fm.left] \o ", " \o ans[fm.right]
      [] fm.op = "mul"    ->
            IF ans[fm.left] = Absent \/ ans[fm.right] = Absent
            THEN EvalError
            ELSE FormatNumber(NumberOf(ans[fm.left]) * NumberOf(ans[fm.right]))
      [] fm.op = "mulOrNull" ->
            IF ans[fm.left] = Absent \/ ans[fm.right] = Absent
            THEN Null
            ELSE FormatNumber(NumberOf(ans[fm.left]) * NumberOf(ans[fm.right]))

(***************************************************************************)
(* Dependency Graph Builder                                                *)
(***************************************************************************)
\* The fields a formula reads.
FormulaKeys(fm) ==
    CASE fm.op \in {"ref", "flip"} -> {fm.field}
      [] OTHER -> {fm.left, fm.right}

\* The fields a predicate reads: the field of its condition and the inputs of
\* its action.
PredicateReads(p) ==
    (IF p.condition.op = "always" THEN {} ELSE {p.condition.field})
    \cup (CASE p.action = "CALC" -> FormulaKeys(p.formula)
            [] p.action \in {"COPY", "OPTION_FILTER"} -> {p.field}
            [] OTHER -> {})

\* The fields of the schema with a predicate that reads t.
Readers(s, t) ==
    {f \in Fields(s) :
        \E i \in 1..Len(Predicates(s, f)) : t \in PredicateReads(Predicates(s, f)[i])}

\* Every field that reads f is subscribed to it, declared or not.
ExistingDependents_WithReaders(s, f) ==
    SelectSeq(DependentKeys(s, f), LAMBDA k : k \in Fields(s))
    \o SelectSeq(Order(s), LAMBDA k : k \in Readers(s, f) /\ k \notin Range(DependentKeys(s, f)))

\* Only the first declared dependent key is followed.
ExistingDependents_FirstOnly(s, f) ==
    LET ks == SelectSeq(DependentKeys(s, f), LAMBDA k : k \in Fields(s))
    IN IF ks = <<>> THEN <<>> ELSE <<Head(ks)>>

\* Dependent keys followed up to the first one that names no field.
RECURSIVE UpToMissing(_, _)
UpToMissing(s, ks) ==
    IF ks = <<>> \/ Head(ks) \notin Fields(s) THEN <<>>
    ELSE <<Head(ks)>> \o UpToMissing(s, Tail(ks))

ExistingDependents_StopAtMissing(s, f) == UpToMissing(s, DependentKeys(s, f))

\* Declared dependent keys that name a field of the schema, in declared order.
ExistingDependents(s, f) == SelectSeq(DependentKeys(s, f), LAMBDA k : k \in Fields(s))

\* Depth-first traversal from f along dependentKeys edges; stack holds the
\* fields on the current path.
RECURSIVE DfsFindsCycle(_, _, _)
DfsFindsCycle(s, f, stack) ==
    \/ f \in stack
    \/ \E g \in Range(ExistingDependents(s, f)) : DfsFindsCycle(s, g, stack \cup {f})

\* Build without cycle detection.
HasCycle_Never(s) == FALSE

\* Traversal that never looks at an edge from a field to itself.
HasCycle_NoSelfLoop(s) ==
    \E f \in Fields(s) :
        \E g \in Range(ExistingDependents(s, f)) \ {f} : DfsFindsCycle(s, g, {f})

HasCycle(s) == \E f \in Fields(s) : DfsFindsCycle(s, f, {})

(***************************************************************************)
(* Access Matrix Resolver                                                  *)
(***************************************************************************)
\* Entire-object replacement: properties the matrix leaves out fall back to defaults.
MergeAccess_Replace(cur, m) ==
    [p \in AccessProps |->
        IF p \in DOMAIN m THEN m[p] ELSE IF p = "visibility" THEN "VISIBLE" ELSE FALSE]

\* Property-by-property merge of a predicate's partial accessMatrix.
MergeAccess(cur, m) == [p \in AccessProps |-> IF p \in DOMAIN m THEN m[p] ELSE cur[p]]

\* Visibility cascade: a GONE parent closes the gate for everything inside,
\* and the children of an INVISIBLE parent become INVISIBLE.
RECURSIVE EffectiveVisibility(_, _, _)
EffectiveVisibility(s, acc, f) ==
    IF ParentOf(s, f) = Root
    THEN acc[f].visibility
    ELSE LET pv == EffectiveVisibility(s, acc, ParentOf(s, f))
         IN IF pv = "GONE" \/ acc[f].visibility = "GONE"
            THEN "GONE"
            ELSE IF pv = "INVISIBLE" THEN "INVISIBLE" ELSE acc[f].visibility

\* readOnly inherited from the containers.
RECURSIVE EffectiveReadOnly_Cascades(_, _, _)
EffectiveReadOnly_Cascades(s, acc, f) ==
    \/ acc[f].readOnly
    \/ ParentOf(s, f) # Root /\ EffectiveReadOnly_Cascades(s, acc, ParentOf(s, f))

\* readOnly and mandatory do not cascade: each field has its own accessMatrix.
EffectiveReadOnly(s, acc, f) == acc[f].readOnly

EffectiveMandatory(s, acc, f) == acc[f].mandatory

\* Role restrictions: the parent wins, whoever cannot see the parent cannot
\* see its children.
RECURSIVE EffectiveRoles(_, _)
EffectiveRoles(s, f) ==
    IF ParentOf(s, f) = Root
    THEN Roles(s, f)
    ELSE EffectiveRoles(s, ParentOf(s, f))

\* Gate that looks at the direct parent's own visibility only.
ApplyGate_DirectChildrenOnly(s, ans, acc) ==
    [f \in AllFields |->
        IF /\ f \in Fields(s)
           /\ ParentOf(s, f) # Root
           /\ acc[ParentOf(s, f)].visibility = "GONE"
        THEN Absent
        ELSE ans[f]]

\* Visibility cascade rule: the values of the children of a GONE parent are cleared.
ApplyGate(s, ans, acc) ==
    [f \in AllFields |->
        IF /\ f \in Fields(s)
           /\ ParentOf(s, f) # Root
           /\ EffectiveVisibility(s, acc, ParentOf(s, f)) = "GONE"
        THEN Absent
        ELSE ans[f]]

(***************************************************************************)
(* Master data as the form sees it                                         *)
(***************************************************************************)
\* Distinct values of a column over a set of rows.
Distinct(rows, col) == {r[col] : r \in rows}

\* Filter that lets every row through.
ApplyFilters_All(rows, parentCol, parentValue) == rows

\* Rows whose parent-linking column equals the parent's value.
ApplyFilters(rows, parentCol, parentValue) == {r \in rows : r[parentCol] = parentValue}

\* The option set of field f when its controlling parent holds parentValue.
FilteredOptions(s, f, parent, parentValue) ==
    Distinct(ApplyFilters(MasterRows, ColumnKey(s, parent), parentValue), ColumnKey(s, f))

\* The field an OPTION_FILTER predicate of f is keyed on ("none" if f has none).
FilterParent(s, f) ==
    LET ps == Predicates(s, f)
        idx == {i \in 1..Len(ps) : ps[i].action = "OPTION_FILTER"}
    IN IF idx = {} THEN "none" ELSE ps[CHOOSE i \in idx : TRUE].field

(***************************************************************************)
(* Predicate Action Executor                                               *)
(***************************************************************************)
\* APPLY_ACCESS_MATRIX that fills the children of a container it makes VISIBLE.
ExecApplyAccessMatrix_Restores(s, f, p, st) ==
    [st EXCEPT !.access[f] = MergeAccess(@, p.accessMatrix),
               !.firing = [key |-> f, matrix |-> p.accessMatrix, prior |-> st.access[f]],
               !.answer = [g \in DOMAIN st.answer |->
                             IF /\ "visibility" \in DOMAIN p.accessMatrix
                                /\ p.accessMatrix.visibility = "VISIBLE"
                                /\ g \in Fields(s)
                                /\ ParentOf(s, g) = f
                                /\ Enum(s, g) # {}
                             THEN CHOOSE v \in Enum(s, g) : TRUE
                             ELSE st.answer[g]]]

\* APPLY_ACCESS_MATRIX: the partial accessMatrix is merged into the field's access state.
ExecApplyAccessMatrix(s, f, p, st) ==
    [st EXCEPT !.access[f] = MergeAccess(@, p.accessMatrix),
               !.firing = [key |-> f, matrix |-> p.accessMatrix, prior |-> st.access[f]]]

\* CALC that stores whatever the formula returns, a null included.
ExecCalc_StoreNull(s, f, p, st) == [st EXCEPT !.answer[f] = Eval(p.formula, st.answer)]

\* CALC that adds the formula's result to the value the field already holds.
ExecCalc_Accumulate(s, f, p, st) ==
    LET r == Eval(p.formula, st.answer)
    IN [st EXCEPT !.answer[f] =
            IF r = Null THEN Absent
            ELSE IF st.answer[f] = Absent THEN r ELSE st.answer[f] \o r]

\* CALC: the formula's result replaces the field's value; a null result
\* removes the field's key from the Answer Store.
ExecCalc(s, f, p, st) ==
    LET r == Eval(p.formula, st.answer)
    IN [st EXCEPT !.answer[f] = IF r = Null THEN Absent ELSE r]

\* COPY: the named field's current value is copied into this field.
ExecCopy(s, f, p, st) == [st EXCEPT !.answer[f] = st.answer[p.field]]

\* OPTION_FILTER that keeps the selection when the parent changes to another value.
ExecOptionFilter_KeepSelection(s, f, p, st) ==
    IF st.answer[p.field] = Absent
    THEN [st EXCEPT !.answer[f] = Absent,
                    !.options[f] = {},
                    !.error[f] = FALSE]
    ELSE [st EXCEPT !.pending[f] = st.answer[p.field]]

\* OPTION_FILTER that shows every option of the column while the parent is empty.
ExecOptionFilter_ShowAll(s, f, p, st) ==
    IF st.answer[p.field] = Absent
    THEN [st EXCEPT !.answer[f] = Absent,
                    !.options[f] = {r[ColumnKey(s, f)] : r \in MasterRows},
                    !.error[f] = FALSE]
    ELSE [st EXCEPT !.answer[f] = Absent,
                    !.pending[f] = st.answer[p.field]]

\* OPTION_FILTER: the field's selection is cleared; with a parent value the
\* options are fetched for it, without one the option set is empty.
ExecOptionFilter(s, f, p, st) ==
    IF st.answer[p.field] = Absent
    THEN [st EXCEPT !.answer[f] = Absent,
                    !.options[f] = {},
                    !.error[f] = FALSE]
    ELSE [st EXCEPT !.answer[f] = Absent,
                    !.pending[f] = st.answer[p.field]]

\* ASYNC_CALC that blanks the field while the call is pending.
ExecAsyncCalc_Blanks(s, f, p, st) ==
    [st EXCEPT !.pending[f] = AsyncCall, !.answer[f] = Absent]

\* ASYNC_CALC: the aggregation is requested; the field keeps its value until
\* the call returns.
ExecAsyncCalc(s, f, p, st) == [st EXCEPT !.pending[f] = AsyncCall]

\* VALIDATE that keeps the error message once it is shown.
ExecValidate_NeverClears(s, f, p, st) ==
    IF Holds(p.condition, st.answer)
    THEN [st EXCEPT !.validation[f] = p.errorMessage]
    ELSE st

\* VALIDATE: the field is invalid and shows the error message when the
\* condition evaluates to true, and is valid when it evaluates to false.
ExecValidate(s, f, p, st) ==
    [st EXCEPT !.validation[f] =
        IF Holds(p.condition, st.answer) THEN p.errorMessage ELSE Valid]

\* The evaluation of predicate p fails: its condition, or the formula of its
\* CALC action, cannot be evaluated on the answer.
Fails(p, ans) ==
    \/ ConditionFails(p.condition, ans)
    \/ /\ Holds(p.condition, ans)
       /\ p.action = "CALC"
       /\ Eval(p.formula, ans) = EvalError

\* The diagnostic of a failed evaluation of predicate p of field f.
Diagnostic(f, p) == [key |-> f, action |-> p.action, error |-> "EvaluationError"]

\* Execution in which a failed evaluation blanks the field and reports nothing.
Execute_FailureClears(s, f, p, st) ==
    IF Fails(p, st.answer)
    THEN [st EXCEPT !.answer[f] = Absent]
    ELSE IF p.action = "VALIDATE"
    THEN ExecValidate(s, f, p, st)
    ELSE IF ~Holds(p.condition, st.answer)
    THEN st
    ELSE CASE p.action = "APPLY_ACCESS_MATRIX" -> ExecApplyAccessMatrix(s, f, p, st)
           [] p.action = "CALC"                -> ExecCalc(s, f, p, st)
           [] p.action = "COPY"                -> ExecCopy(s, f, p, st)
           [] p.action = "OPTION_FILTER"       -> ExecOptionFilter(s, f, p, st)
           [] p.action = "ASYNC_CALC"          -> ExecAsyncCalc(s, f, p, st)

\* Execution in which a false condition puts the field back to the access
\* state it declares.
Execute_RevertsOnFalse(s, f, p, st) ==
    IF Fails(p, st.answer)
    THEN [st EXCEPT !.diagnostics = Append(@, Diagnostic(f, p))]
    ELSE IF p.action = "VALIDATE"
    THEN ExecValidate(s, f, p, st)
    ELSE IF ~Holds(p.condition, st.answer)
    THEN [st EXCEPT !.access[f] = DefaultAccess(s, f)]
    ELSE CASE p.action = "APPLY_ACCESS_MATRIX" -> ExecApplyAccessMatrix(s, f, p, st)
           [] p.action = "CALC"                -> ExecCalc(s, f, p, st)
           [] p.action = "COPY"                -> ExecCopy(s, f, p, st)
           [] p.action = "OPTION_FILTER"       -> ExecOptionFilter(s, f, p, st)
           [] p.action = "ASYNC_CALC"          -> ExecAsyncCalc(s, f, p, st)

Modes == {"client", "server"}

\* The optional execution-control flags of a predicate.
SkipOnClient(p) ==
    /\ "skipPredicateExecutionOnClient" \in DOMAIN p
    /\ p.skipPredicateExecutionOnClient

SkipOnServer(p) ==
    /\ "skipPredicateExecutionOnServer" \in DOMAIN p
    /\ p.skipPredicateExecutionOnServer

\* Gating that reads the two flags the wrong way round.
Suppressed_Swapped(p, m) ==
    \/ m = "server" /\ SkipOnClient(p)
    \/ m = "client" /\ SkipOnServer(p)

\* The predicate does not run in runtime mode m.
Suppressed(p, m) ==
    \/ m = "client" /\ SkipOnClient(p)
    \/ m = "server" /\ SkipOnServer(p)

\* One predicate p of field f fired on the engine state st; a predicate
\* suppressed in the runtime mode is passed over, a failed evaluation skips
\* the predicate and adds a diagnostic, a false condition skips the action.
Execute(s, f, p, st) ==
    IF Suppressed(p, mode)
    THEN st
    ELSE IF Fails(p, st.answer)
    THEN [st EXCEPT !.diagnostics = Append(@, Diagnostic(f, p))]
    ELSE IF p.action = "VALIDATE"
    THEN ExecValidate(s, f, p, st)
    ELSE IF ~Holds(p.condition, st.answer)
    THEN st
    ELSE CASE p.action = "APPLY_ACCESS_MATRIX" -> ExecApplyAccessMatrix(s, f, p, st)
           [] p.action = "CALC"                -> ExecCalc(s, f, p, st)
           [] p.action = "COPY"                -> ExecCopy(s, f, p, st)
           [] p.action = "OPTION_FILTER"       -> ExecOptionFilter(s, f, p, st)
           [] p.action = "ASYNC_CALC"          -> ExecAsyncCalc(s, f, p, st)

(***************************************************************************)
(* Propagation Scheduler                                                   *)
(***************************************************************************)
NoPendingFetch == \A f \in AllFields : fetchPending[f] = NoFetch

\* No pass is running: nothing left to re-evaluate and no fetch outstanding.
Idle == worklist = <<>> /\ NoPendingFetch

\* The synchronous walk is not running: the pass is over or awaits a fetch.
Suspended ==
    IF worklist = <<>>
    THEN TRUE
    ELSE /\ predIdx <= Len(Predicates(schema, Head(worklist)))
         /\ fetchPending[Head(worklist)] # NoFetch

\* What the user can pick for a field: the dropdown's options or the enum.
Choices(s, f, opts) == IF ColumnKey(s, f) # "none" THEN opts[f] ELSE Enum(s, f)

\* An edit of field f to value v that the form accepts in the given state:
\* the field is an input the user can reach, a dropdown is not loading its
\* options, and a selection comes from the options on offer.
Editable(s, f, v, ans, acc, opts, pend) ==
    /\ f \in Fields(s)
    /\ ~IsSection(s, f)
    /\ ColumnKey(s, f) # "none" \/ Enum(s, f) # {}
    /\ EffectiveVisibility(s, acc, f) = "VISIBLE"
    /\ ~EffectiveReadOnly(s, acc, f)
    /\ UserRole \in EffectiveRoles(s, f)
    /\ pend[f] = NoFetch \/ ColumnKey(s, f) = "none"
    /\ v # ans[f]
    /\ v = Absent \/ v \in Choices(s, f, opts)

\* A pass in which a field changed by a predicate triggers nothing.
Triggered_None(s, order, changed) == <<>>

\* Dependents of every field of `changed`, fields taken in schema order.
RECURSIVE Triggered(_, _, _)
Triggered(s, order, changed) ==
    IF order = <<>>
    THEN <<>>
    ELSE (IF Head(order) \in changed THEN ExistingDependents(s, Head(order)) ELSE <<>>)
         \o Triggered(s, Tail(order), changed)

Values == UNION {Enum(s, f) : s \in Schemas \cup SessionSchemas \cup ModeSchemas, f \in AllFields}
            \cup UNION {{r.s, r.d, r.b} : r \in MasterRows}

(***************************************************************************)
(* Inputs of a session                                                     *)
(***************************************************************************)
\* The inputs of a session that is compared with another one: the edits it
\* accepted, in order; for each field the results of its fetches and
\* aggregation calls, in order; and whether an edit was made to a field while
\* its computation was pending. A session that is not compared records nothing.
NoInputs ==
    [on |-> TRUE, edits |-> <<>>, results |-> [f \in AllFields |-> <<>>], raced |-> FALSE]

Unobserved == [on |-> FALSE]

NoTwin == [on |-> FALSE]

ReceiveEdit(h, e) == IF h.on THEN [h EXCEPT !.edits = Append(@, e)] ELSE h

ReceiveResult(h, f, r) == IF h.on THEN [h EXCEPT !.results[f] = Append(@, r)] ELSE h

ReceiveRace(h, f, pend) ==
    IF h.on /\ pend[f] # NoFetch THEN [h EXCEPT !.raced = TRUE] ELSE h

(***************************************************************************)
(* Initial state                                                           *)
(***************************************************************************)
\* A session in one of the runtime modes of M about to be built on one of the
\* schema documents of S.
FormStart(S, M) ==
    /\ schema \in S
    /\ mode \in M
    /\ phase = "unbuilt"
    /\ answer = [f \in AllFields |-> Absent]
    /\ access = [f \in AllFields |-> DefaultAccess(schema, f)]
    /\ options = [f \in AllFields |-> {}]
    /\ editQueue = <<>>
    /\ current = NoEdit
    /\ worklist = <<>>
    /\ predIdx = 1
    /\ fetchPending = [f \in AllFields |-> NoFetch]
    /\ fetchError = [f \in AllFields |-> FALSE]
    /\ passCleared = {}
    /\ lastFiring = NoFiring
    /\ diagnostics = <<>>
    /\ validation = [f \in AllFields |-> Valid]
    /\ invalidated = {}
    /\ discarded = {}
    /\ twin = NoTwin

\* A session that is not compared with another one.
FormInitIn(S, M) == FormStart(S, M) /\ received = Unobserved

\* A client session about to be built on one of the schema documents of S.
FormInitOver(S) == FormInitIn(S, {"client"})

FormInit == FormInitOver(Schemas)

(***************************************************************************)
(* Actions of a form session                                               *)
(***************************************************************************)
\* build(schema): a cycle among dependentKeys edges rejects the schema.
Build ==
    /\ phase = "unbuilt"
    /\ phase' = IF HasCycle(schema) THEN "rejected" ELSE "built"
    /\ UNCHANGED <<schema, twin, received, mode, validation, answer, access, options, editQueue, current, worklist,
                   predIdx, fetchPending, fetchError, passCleared, lastFiring,
                   diagnostics, invalidated, discarded>>
    /\ UNCHANGED masterVars
    /\ UNCHANGED appVars

\* Form loads: unfiltered dropdowns get their column's values and every
\* predicate is evaluated once against the empty answer.
OpenSession ==
    /\ phase = "built"
    /\ phase' = "open"
    /\ options' = [f \in AllFields |->
                      IF /\ f \in Fields(schema)
                         /\ ColumnKey(schema, f) # "none"
                         /\ FilterParent(schema, f) = "none"
                      THEN Distinct(MasterRows, ColumnKey(schema, f))
                      ELSE options[f]]
    /\ worklist' = Order(schema)
    /\ predIdx' = 1
    /\ UNCHANGED <<schema, twin, received, mode, validation, answer, access, editQueue, current, fetchPending,
                   fetchError, passCleared, lastFiring, diagnostics, invalidated,
                   discarded>>
    /\ UNCHANGED masterVars
    /\ UNCHANGED appVars

\* An edit that races the pending computation instead of invalidating it.
Invalidate_Never(inv, f, pend) == inv

\* A later edit to a field that is being recomputed invalidates the write of
\* the computation in flight.
Invalidate(inv, f, pend) == IF pend[f] # NoFetch THEN inv \cup {f} ELSE inv

\* The user changes a field; the edit joins the propagation queue.
UserEdit(f, v) ==
    /\ phase = "open"
    /\ Suspended
    /\ Len(editQueue) < MaxQueue
    /\ Editable(schema, f, v, answer, access, options, fetchPending)
    /\ editQueue' = Append(editQueue, [key |-> f, value |-> v])
    /\ invalidated' = Invalidate(invalidated, f, fetchPending)
    /\ UNCHANGED <<schema, twin, mode, validation, phase, answer, access, options, current, worklist,
                   predIdx, fetchPending, fetchError, passCleared, lastFiring,
                   diagnostics, discarded>>
    /\ received' = ReceiveRace(received, f, fetchPending)
    /\ UNCHANGED masterVars
    /\ UNCHANGED appVars

\* Acceptance that does not wait for the running pass.
AcceptEdit_NoWait ==
    /\ phase = "open"
    /\ editQueue # <<>>
    /\ LET e == Head(editQueue) IN
        /\ Editable(schema, e.key, e.value, answer, access, options, fetchPending)
        /\ answer' = ApplyGate(schema, [answer EXCEPT ![e.key] = e.value], access)
        /\ current' = [key |-> e.key, old |-> answer[e.key], new |-> e.value]
        /\ worklist' = ExistingDependents(schema, e.key)
    /\ editQueue' = Tail(editQueue)
    /\ predIdx' = 1
    /\ passCleared' = {}
    /\ lastFiring' = NoFiring
    /\ diagnostics' = <<>>
    /\ UNCHANGED <<schema, twin, mode, validation, phase, access, options, fetchPending, fetchError,
                   invalidated, discarded>>
    /\ received' = ReceiveEdit(received, Head(editQueue))
    /\ UNCHANGED masterVars
    /\ UNCHANGED appVars

\* The next edit is accepted once the previous pass is over: it is written to
\* the Answer Store and the dependents of the edited field are scheduled.
AcceptEdit ==
    /\ phase = "open"
    /\ Idle
    /\ editQueue # <<>>
    /\ LET e == Head(editQueue) IN
        /\ Editable(schema, e.key, e.value, answer, access, options, fetchPending)
        /\ answer' = ApplyGate(schema, [answer EXCEPT ![e.key] = e.value], access)
        /\ current' = [key |-> e.key, old |-> answer[e.key], new |-> e.value]
        /\ worklist' = ExistingDependents(schema, e.key)
    /\ editQueue' = Tail(editQueue)
    /\ predIdx' = 1
    /\ passCleared' = {}
    /\ lastFiring' = NoFiring
    /\ diagnostics' = <<>>
    /\ UNCHANGED <<schema, twin, mode, validation, phase, access, options, fetchPending, fetchError,
                   invalidated, discarded>>
    /\ received' = ReceiveEdit(received, Head(editQueue))
    /\ UNCHANGED masterVars
    /\ UNCHANGED appVars

\* A queued edit that the form no longer offers when its turn comes is dropped.
RejectEdit ==
    /\ phase = "open"
    /\ Idle
    /\ editQueue # <<>>
    /\ LET e == Head(editQueue) IN
        ~Editable(schema, e.key, e.value, answer, access, options, fetchPending)
    /\ editQueue' = Tail(editQueue)
    /\ UNCHANGED <<schema, twin, received, mode, validation, phase, answer, access, options, current, worklist,
                   predIdx, fetchPending, fetchError, passCleared, lastFiring,
                   diagnostics, invalidated, discarded>>
    /\ UNCHANGED masterVars
    /\ UNCHANGED appVars

\* Predicates taken last-declared first.
PredicateAt_Reversed(ps, i) == ps[Len(ps) + 1 - i]

\* The i-th predicate of a field in declared order.
PredicateAt(ps, i) == ps[i]

\* A walk that does not await the pending computation of the head field.
FirePredicate_NoAwait ==
    /\ phase = "open"
    /\ worklist # <<>>
    /\ LET f == Head(worklist)
           ps == Predicates(schema, f)
       IN /\ predIdx <= Len(ps)
          /\ LET st == Execute(schema, f, PredicateAt(ps, predIdx),
                               [answer |-> answer, access |-> access,
                                options |-> options, pending |-> fetchPending,
                                error |-> fetchError, firing |-> lastFiring,
                                diagnostics |-> diagnostics,
                                validation |-> validation])
                 ans == ApplyGate(schema, st.answer, st.access)
                 changed == {g \in Fields(schema) : ans[g] # answer[g]}
             IN /\ answer' = ans
                /\ access' = st.access
                /\ options' = st.options
                /\ fetchPending' = st.pending
                /\ fetchError' = st.error
                /\ lastFiring' = st.firing
                /\ diagnostics' = st.diagnostics
                /\ validation' = st.validation
                /\ passCleared' = passCleared \cup {g \in changed : ans[g] = Absent}
                /\ worklist' = worklist \o Triggered(schema, Order(schema), changed)
    /\ predIdx' = predIdx + 1
    /\ UNCHANGED <<schema, twin, received, mode, phase, editQueue, current, invalidated, discarded>>
    /\ UNCHANGED masterVars
    /\ UNCHANGED appVars

\* The next predicate of the field at the head of the worklist fires; the gate
\* is re-applied and the dependents of every field whose value changed are
\* scheduled.
FirePredicate ==
    /\ phase = "open"
    /\ worklist # <<>>
    /\ LET f == Head(worklist)
           ps == Predicates(schema, f)
       IN /\ predIdx <= Len(ps)
          /\ fetchPending[f] = NoFetch
          /\ LET st == Execute(schema, f, PredicateAt(ps, predIdx),
                               [answer |-> answer, access |-> access,
                                options |-> options, pending |-> fetchPending,
                                error |-> fetchError, firing |-> lastFiring,
                                diagnostics |-> diagnostics,
                                validation |-> validation])
                 ans == ApplyGate(schema, st.answer, st.access)
                 changed == {g \in Fields(schema) : ans[g] # answer[g]}
             IN /\ answer' = ans
                /\ access' = st.access
                /\ options' = st.options
                /\ fetchPending' = st.pending
                /\ fetchError' = st.error
                /\ lastFiring' = st.firing
                /\ diagnostics' = st.diagnostics
                /\ validation' = st.validation
                /\ passCleared' = passCleared \cup {g \in changed : ans[g] = Absent}
                /\ worklist' = worklist \o Triggered(schema, Order(schema), changed)
    /\ predIdx' = predIdx + 1
    /\ UNCHANGED <<schema, twin, received, mode, phase, editQueue, current, invalidated, discarded>>
    /\ UNCHANGED masterVars
    /\ UNCHANGED appVars

\* All predicates of the head field have fired: move on to the next field.
NextField ==
    /\ phase = "open"
    /\ worklist # <<>>
    /\ predIdx > Len(Predicates(schema, Head(worklist)))
    /\ worklist' = Tail(worklist)
    /\ predIdx' = 1
    /\ UNCHANGED <<schema, twin, received, mode, validation, phase, answer, access, options, editQueue, current,
                   fetchPending, fetchError, passCleared, lastFiring, diagnostics,
                   invalidated, discarded>>
    /\ UNCHANGED masterVars
    /\ UNCHANGED appVars

\* Only an invalidated computation is dropped; a closed session is written to.
Dropped_OnlyInvalidated(f) == f \in invalidated

\* The result of a completed computation of field f is not written: the
\* session is closed, or a later edit to f invalidated the computation.
Dropped(f) == phase = "closed" \/ f \in invalidated

\* The master fetch of field f returns: its options become the rows filtered
\* by the parent value the fetch was issued for.
FetchResolve(f) ==
    /\ phase \in {"open", "closed"}
    /\ phase = "closed" \/ Suspended
    /\ fetchPending[f] \notin {NoFetch, AsyncCall}
    /\ IF Dropped(f)
       THEN /\ discarded' = discarded \cup {f}
            /\ UNCHANGED <<options, fetchError>>
       ELSE /\ options' = [options EXCEPT ![f] =
                    FilteredOptions(schema, f, FilterParent(schema, f), fetchPending[f])]
            /\ fetchError' = [fetchError EXCEPT ![f] = FALSE]
            /\ UNCHANGED discarded
    /\ fetchPending' = [fetchPending EXCEPT ![f] = NoFetch]
    /\ invalidated' = invalidated \ {f}
    /\ UNCHANGED <<schema, twin, mode, validation, phase, answer, access, editQueue, current, worklist,
                   predIdx, passCleared, lastFiring, diagnostics>>
    /\ received' = ReceiveResult(received, f, "rows")
    /\ UNCHANGED masterVars
    /\ UNCHANGED appVars

\* The ASYNC_CALC aggregation of field f returns r: r becomes the field's
\* value and the dependents of the field are scheduled.
AsyncResolve(f, r) ==
    /\ phase \in {"open", "closed"}
    /\ phase = "closed" \/ Suspended
    /\ fetchPending[f] = AsyncCall
    /\ IF Dropped(f)
       THEN /\ discarded' = discarded \cup {f}
            /\ UNCHANGED <<answer, worklist, fetchError>>
       ELSE LET ans == ApplyGate(schema, [answer EXCEPT ![f] = r], access)
                changed == {g \in Fields(schema) : ans[g] # answer[g]}
            IN /\ answer' = ans
               /\ worklist' = worklist \o Triggered(schema, Order(schema), changed)
               /\ fetchError' = [fetchError EXCEPT ![f] = FALSE]
               /\ UNCHANGED discarded
    /\ fetchPending' = [fetchPending EXCEPT ![f] = NoFetch]
    /\ invalidated' = invalidated \ {f}
    /\ UNCHANGED <<schema, twin, mode, validation, phase, access, options, editQueue, current, predIdx,
                   passCleared, lastFiring, diagnostics>>
    /\ received' = ReceiveResult(received, f, r)
    /\ UNCHANGED masterVars
    /\ UNCHANGED appVars

\* A failed fetch that empties the field's option set.
FetchFail_ResetsOptions(f) ==
    /\ phase \in {"open", "closed"}
    /\ phase = "closed" \/ Suspended
    /\ fetchPending[f] # NoFetch
    /\ options' = [options EXCEPT ![f] = {}]
    /\ fetchError' = [fetchError EXCEPT ![f] = TRUE]
    /\ diagnostics' = Append(diagnostics,
            [key |-> f, action |-> "fetch", error |-> "FetchError"])
    /\ fetchPending' = [fetchPending EXCEPT ![f] = NoFetch]
    /\ invalidated' = invalidated \ {f}
    /\ UNCHANGED <<schema, twin, mode, validation, phase, answer, access, editQueue, current,
                   worklist, predIdx, passCleared, lastFiring, discarded>>
    /\ received' = ReceiveResult(received, f, "error")
    /\ UNCHANGED masterVars
    /\ UNCHANGED appVars

\* The master fetch or aggregation call of field f fails or times out: the
\* field's options and value stay at their last-known state and the error is
\* recorded for the field.
FetchFail(f) ==
    /\ phase \in {"open", "closed"}
    /\ phase = "closed" \/ Suspended
    /\ fetchPending[f] # NoFetch
    /\ IF Dropped(f)
       THEN UNCHANGED <<fetchError, diagnostics>>
       ELSE /\ fetchError' = [fetchError EXCEPT ![f] = TRUE]
            /\ diagnostics' = Append(diagnostics,
                    [key |-> f, action |-> "fetch", error |-> "FetchError"])
    /\ fetchPending' = [fetchPending EXCEPT ![f] = NoFetch]
    /\ invalidated' = invalidated \ {f}
    /\ UNCHANGED <<schema, twin, mode, validation, phase, answer, access, options, editQueue, current,
                   worklist, predIdx, passCleared, lastFiring, discarded>>
    /\ received' = ReceiveResult(received, f, "error")
    /\ UNCHANGED masterVars
    /\ UNCHANGED appVars

\* The session is closed; what is still pending completes later.
CloseSession ==
    /\ phase = "open"
    /\ Suspended
    /\ phase' = "closed"
    /\ UNCHANGED <<schema, twin, received, mode, validation, answer, access, options, editQueue, current, worklist,
                   predIdx, fetchPending, fetchError, passCleared, lastFiring,
                   diagnostics, invalidated, discarded>>
    /\ UNCHANGED masterVars
    /\ UNCHANGED appVars

UserEdits ==
    \E f \in Fields(schema) :
        \E v \in Choices(schema, f, options) \cup {Absent} : UserEdit(f, v)

FetchResolves == \E f \in Fields(schema) : FetchResolve(f)

FetchFails == \E f \in Fields(schema) : FetchFail(f)

AsyncResolves == \E f \in Fields(schema), r \in AsyncResults : AsyncResolve(f, r)

FormNext ==
    \/ Build
    \/ OpenSession
    \/ UserEdits
    \/ AcceptEdit
    \/ RejectEdit
    \/ FirePredicate
    \/ NextField
    \/ FetchResolves
    \/ FetchFails

(***************************************************************************)
(* Master Manager                                                          *)
(***************************************************************************)
Callers == {"district", "block"}
Configs == {[masterId |-> "locations", partition |-> v] : v \in {"Maharashtra", "Karnataka"}}
NoConfig == [masterId |-> "none", partition |-> "none"]
NoData == [config |-> NoConfig, fetch |-> 0]
NoEntry == [data |-> NoData, expired |-> TRUE]
FetchIds == 1..MaxFetches

\* Cache key built from the master id and the partition filter.
buildCacheKey_MasterOnly(config) == <<config.masterId, "all">>

buildCacheKey(config) == <<config.masterId, config.partition>>

\* The partitions of the location master a session can ask for.
PartitionConfigs ==
    {[masterId |-> "locations", partition |-> v] : v \in {"Maharashtra", "Karnataka", "Goa"}}

CacheKeys == {buildCacheKey(c) : c \in PartitionConfigs}

\* A cache hit that leaves the entry where it was in the eviction order.
CacheTouch_NoReorder(cache, key) == cache

\* LRUCache.has / get / set on the list of entries, least recently used first.
CacheHas(cache, key) == \E i \in 1..Len(cache) : cache[i].key = key

CacheData(cache, key) == cache[CHOOSE i \in 1..Len(cache) : cache[i].key = key].data

CacheTouch(cache, key) ==
    SelectSeq(cache, LAMBDA e : e.key # key) \o SelectSeq(cache, LAMBDA e : e.key = key)

CacheSet(cache, key, data) ==
    LET put == Append(SelectSeq(cache, LAMBDA e : e.key # key), [key |-> key, data |-> data])
    IN IF Len(put) > MemoryCacheSize THEN Tail(put) ELSE put

isExpired(entry) == entry.expired

\* Number of fetches issued to the source so far.
Issued == Cardinality({i \in FetchIds : promises[i].state # "unused"})

MasterInit ==
    /\ memoryCache = <<>>
    /\ persistentCache = [k \in CacheKeys |-> NoEntry]
    /\ inflightRequests = [k \in CacheKeys |-> 0]
    /\ promises = [i \in FetchIds |-> [state |-> "unused", config |-> NoConfig]]
    /\ callers = [c \in Callers |->
                    [pc |-> "idle", config |-> NoConfig, promise |-> 0,
                     result |-> NoData, via |-> "none"]]
    /\ expiries = [k \in CacheKeys |-> 0]
    /\ serverVersion = 1
    /\ versionChecked = "recent"
    /\ fetchVersion = [i \in FetchIds |-> 0]
    /\ staleFetches = {}

\* getMaster(config) up to its first await: a memory-cache hit returns at
\* once, otherwise the persistent cache is read.
GetMaster(c, config) ==
    /\ callers[c].pc \in {"idle", "done", "failed"}
    /\ LET key == buildCacheKey(config) IN
        IF CacheHas(memoryCache, key)
        THEN /\ callers' = [callers EXCEPT ![c] =
                    [pc |-> "done", config |-> config, promise |-> 0,
                     result |-> CacheData(memoryCache, key), via |-> "memory"]]
             /\ memoryCache' = CacheTouch(memoryCache, key)
        ELSE /\ callers' = [callers EXCEPT ![c] =
                    [pc |-> "persistGet", config |-> config, promise |-> 0,
                     result |-> NoData, via |-> "none"]]
             /\ UNCHANGED memoryCache
    /\ UNCHANGED <<persistentCache, inflightRequests, promises, expiries>>
    /\ UNCHANGED formVars
    /\ UNCHANGED appVars
    /\ UNCHANGED versionVars

\* getMaster that fetches without looking at the in-flight requests.
ResumePersistGet_NoDedup(c) ==
    /\ callers[c].pc = "persistGet"
    /\ LET key == buildCacheKey(callers[c].config)
           cached == persistentCache[key]
       IN IF cached # NoEntry /\ ~isExpired(cached)
          THEN /\ memoryCache' = CacheSet(memoryCache, key, cached.data)
               /\ callers' = [callers EXCEPT ![c].pc = "done",
                                             ![c].result = cached.data,
                                             ![c].via = "persistent"]
               /\ UNCHANGED <<inflightRequests, promises>>
          ELSE /\ Issued < MaxFetches
               /\ LET id == Issued + 1 IN
                    /\ promises' = [promises EXCEPT ![id] =
                                      [state |-> "pending", config |-> callers[c].config]]
                    /\ inflightRequests' = [inflightRequests EXCEPT ![key] = id]
                    /\ callers' = [callers EXCEPT ![c].pc = "fetching", ![c].promise = id]
               /\ UNCHANGED memoryCache
    /\ UNCHANGED <<persistentCache, expiries>>
    /\ UNCHANGED formVars
    /\ UNCHANGED appVars
    /\ UNCHANGED versionVars

\* persistentCache.get returned: an unexpired entry is served, an in-flight
\* request for the key is shared, otherwise the master is fetched.
ResumePersistGet(c) ==
    /\ callers[c].pc = "persistGet"
    /\ LET key == buildCacheKey(callers[c].config)
           cached == persistentCache[key]
       IN IF cached # NoEntry /\ ~isExpired(cached)
          THEN /\ memoryCache' = CacheSet(memoryCache, key, cached.data)
               /\ callers' = [callers EXCEPT ![c].pc = "done",
                                             ![c].result = cached.data,
                                             ![c].via = "persistent"]
               /\ UNCHANGED <<inflightRequests, promises>>
          ELSE IF inflightRequests[key] # 0
          THEN /\ callers' = [callers EXCEPT ![c].pc = "shared",
                                             ![c].promise = inflightRequests[key]]
               /\ UNCHANGED <<memoryCache, inflightRequests, promises>>
          ELSE /\ Issued < MaxFetches
               /\ LET id == Issued + 1 IN
                    /\ promises' = [promises EXCEPT ![id] =
                                      [state |-> "pending", config |-> callers[c].config]]
                    /\ inflightRequests' = [inflightRequests EXCEPT ![key] = id]
                    /\ callers' = [callers EXCEPT ![c].pc = "fetching", ![c].promise = id]
               /\ UNCHANGED memoryCache
    /\ UNCHANGED <<persistentCache, expiries>>
    /\ UNCHANGED formVars
    /\ UNCHANGED appVars
    /\ UNCHANGED versionVars

\* The source answers a fetch with the rows of the requested partition, which
\* carry the version of the master at that moment.
FetchFulfilled(id) ==
    /\ promises[id].state = "pending"
    /\ promises' = [promises EXCEPT ![id].state = "fulfilled"]
    /\ fetchVersion' = [fetchVersion EXCEPT ![id] = serverVersion]
    /\ UNCHANGED <<memoryCache, persistentCache, inflightRequests, callers, expiries>>
    /\ UNCHANGED <<serverVersion, versionChecked, staleFetches>>
    /\ UNCHANGED formVars
    /\ UNCHANGED appVars

\* The source fails a fetch (network error or timeout).
FetchRejected(id) ==
    /\ promises[id].state = "pending"
    /\ promises' = [promises EXCEPT ![id].state = "rejected"]
    /\ UNCHANGED <<memoryCache, persistentCache, inflightRequests, callers, expiries>>
    /\ UNCHANGED formVars
    /\ UNCHANGED appVars
    /\ UNCHANGED versionVars

\* The row set a fulfilled fetch carries.
FetchedData(id) == [config |-> promises[id].config, fetch |-> id]

\* getMaster without the finally block: a failed fetch stays registered.
ResumeFetch_NoFinally(c) ==
    /\ callers[c].pc = "fetching"
    /\ LET id == callers[c].promise
           key == buildCacheKey(callers[c].config)
       IN \/ /\ promises[id].state = "fulfilled"
             /\ memoryCache' = CacheSet(memoryCache, key, FetchedData(id))
             /\ callers' = [callers EXCEPT ![c].pc = "persistSet"]
          \/ /\ promises[id].state = "rejected"
             /\ callers' = [callers EXCEPT ![c].pc = "failed", ![c].via = "fetch"]
             /\ UNCHANGED memoryCache
    /\ UNCHANGED <<persistentCache, inflightRequests, promises, expiries>>
    /\ UNCHANGED formVars
    /\ UNCHANGED appVars
    /\ UNCHANGED versionVars

\* await fetchPromise returned in the caller that issued the fetch: the data
\* goes to the memory cache and is written to the persistent cache; a failure
\* leaves through the finally block.
ResumeFetch(c) ==
    /\ callers[c].pc = "fetching"
    /\ LET id == callers[c].promise
           key == buildCacheKey(callers[c].config)
       IN \/ /\ promises[id].state = "fulfilled"
             /\ memoryCache' = CacheSet(memoryCache, key, FetchedData(id))
             /\ callers' = [callers EXCEPT ![c].pc = "persistSet"]
             /\ UNCHANGED inflightRequests
          \/ /\ promises[id].state = "rejected"
             /\ inflightRequests' = [inflightRequests EXCEPT ![key] = 0]
             /\ callers' = [callers EXCEPT ![c].pc = "failed", ![c].via = "fetch"]
             /\ UNCHANGED memoryCache
    /\ UNCHANGED <<persistentCache, promises, expiries>>
    /\ UNCHANGED formVars
    /\ UNCHANGED appVars
    /\ UNCHANGED versionVars

\* persistentCache.set returned: the data is returned and the finally block
\* removes the in-flight entry.
ResumePersistSet(c) ==
    /\ callers[c].pc = "persistSet"
    /\ LET id == callers[c].promise
           key == buildCacheKey(callers[c].config)
       IN /\ persistentCache' = [persistentCache EXCEPT ![key] =
                                    [data |-> FetchedData(id), expired |-> FALSE]]
          /\ inflightRequests' = [inflightRequests EXCEPT ![key] = 0]
          /\ callers' = [callers EXCEPT ![c].pc = "done",
                                        ![c].result = FetchedData(id),
                                        ![c].via = "fetch"]
    /\ UNCHANGED <<memoryCache, promises, expiries>>
    /\ UNCHANGED formVars
    /\ UNCHANGED appVars
    /\ UNCHANGED versionVars

\* A caller that was handed the in-flight promise gets what it settles with.
ResumeShared(c) ==
    /\ callers[c].pc = "shared"
    /\ LET id == callers[c].promise IN
        \/ /\ promises[id].state = "fulfilled"
           /\ callers' = [callers EXCEPT ![c].pc = "done",
                                         ![c].result = FetchedData(id),
                                         ![c].via = "shared"]
        \/ /\ promises[id].state = "rejected"
           /\ callers' = [callers EXCEPT ![c].pc = "failed", ![c].via = "shared"]
    /\ UNCHANGED <<memoryCache, persistentCache, inflightRequests, promises, expiries>>
    /\ UNCHANGED formVars
    /\ UNCHANGED appVars
    /\ UNCHANGED versionVars

\* The ttl of a persistent entry runs out.
Expire(key) ==
    /\ persistentCache[key] # NoEntry
    /\ ~persistentCache[key].expired
    /\ expiries[key] < MaxExpiries
    /\ persistentCache' = [persistentCache EXCEPT ![key].expired = TRUE]
    /\ expiries' = [expiries EXCEPT ![key] = @ + 1]
    /\ UNCHANGED <<memoryCache, inflightRequests, promises, callers>>
    /\ UNCHANGED formVars
    /\ UNCHANGED appVars
    /\ UNCHANGED versionVars

\* No getMaster call is between two of its awaits.
Quiescent == \A c \in Callers : callers[c].pc \in {"idle", "done", "failed"}

\* Master data changes: the server increments the version.
MasterDataChanges ==
    /\ serverVersion < MaxVersions
    /\ serverVersion' = serverVersion + 1
    /\ UNCHANGED <<memoryCache, persistentCache, inflightRequests, promises, callers,
                   expiries, versionChecked, fetchVersion, staleFetches>>
    /\ UNCHANGED formVars
    /\ UNCHANGED appVars

\* checkInterval passes since the last version check.
IntervalElapses ==
    /\ versionChecked = "recent"
    /\ versionChecked' = "stale"
    /\ UNCHANGED <<memoryCache, persistentCache, inflightRequests, promises, callers,
                   expiries, serverVersion, fetchVersion, staleFetches>>
    /\ UNCHANGED formVars
    /\ UNCHANGED appVars

\* The cached version of a row set differs from the server's.
Outdated(data) == data # NoData /\ fetchVersion[data.fetch] # serverVersion

\* A version check that finds every cached version equal to the server's.
VersionMismatch_Never(data) == FALSE

\* Server version != cached version?
VersionMismatch(data) == Outdated(data)

\* Version check on form load or app resume, when the last check is stale:
\* HEAD /master/{id}/version; the entries whose version differs from the
\* server's are invalidated, to be fetched again on their next use.
VersionCheck ==
    /\ Quiescent
    /\ versionChecked = "stale"
    /\ versionChecked' = "recent"
    /\ memoryCache' = SelectSeq(memoryCache, LAMBDA e : ~VersionMismatch(e.data))
    /\ persistentCache' = [k \in CacheKeys |->
            IF VersionMismatch(persistentCache[k].data) THEN NoEntry ELSE persistentCache[k]]
    /\ staleFetches' = staleFetches
            \cup {e.data.fetch : e \in {memoryCache[i] : i \in
                        {j \in 1..Len(memoryCache) : Outdated(memoryCache[j].data)}}}
            \cup {persistentCache[k].data.fetch : k \in
                        {j \in CacheKeys : Outdated(persistentCache[j].data)}}
    /\ UNCHANGED <<inflightRequests, promises, callers, expiries, serverVersion,
                   fetchVersion>>
    /\ UNCHANGED formVars
    /\ UNCHANGED appVars

GetMasters == \E c \in Callers, config \in Configs : GetMaster(c, config)

ResumePersistGets == \E c \in Callers : ResumePersistGet(c)

FetchFulfilleds == \E id \in FetchIds : FetchFulfilled(id)

FetchRejecteds == \E id \in FetchIds : FetchRejected(id)

ResumeFetches == \E c \in Callers : ResumeFetch(c)

ResumePersistSets == \E c \in Callers : ResumePersistSet(c)

ResumeShareds == \E c \in Callers : ResumeShared(c)

Expires == \E key \in CacheKeys : Expire(key)

PartitionGetMasters == \E c \in Callers, config \in PartitionConfigs : GetMaster(c, config)

MasterNext ==
    \/ GetMasters
    \/ ResumePersistGets
    \/ FetchFulfilleds
    \/ FetchRejecteds
    \/ ResumeFetches
    \/ ResumePersistSets
    \/ ResumeShareds
    \/ Expires

(***************************************************************************)
(* Repeating groups: orders[$i].lineItems[$j]                              *)
(***************************************************************************)
MaxRows == 5

\* Address segments: a property name, a row index variable, a row number.
Key(k) == [key |-> k]
Var(v) == [var |-> v]
Index(n) == [index |-> n]

\* $i is the first-level array, $j the second, $k the third.
IndexVars == <<"$i", "$j", "$k">>

Level(v) == CHOOSE n \in 1..Len(IndexVars) : IndexVars[n] = v

\* Index variables bound innermost first.
Bind_InnermostFirst(addr, bindings) ==
    [n \in 1..Len(addr) |->
        IF "var" \in DOMAIN addr[n]
        THEN Index(bindings[Len(bindings) + 1 - Level(addr[n].var)])
        ELSE addr[n]]

\* The address with each index variable replaced by the actual index of the
\* enclosing row at its level, the outermost array first.
Bind(addr, bindings) ==
    [n \in 1..Len(addr) |->
        IF "var" \in DOMAIN addr[n] THEN Index(bindings[Level(addr[n].var)]) ELSE addr[n]]

\* The value at a bound address, rows being numbered from 0; Absent when a
\* row does not exist.
RECURSIVE Get(_, _)
Get(value, addr) ==
    IF addr = <<>> THEN value
    ELSE IF "index" \in DOMAIN Head(addr)
         THEN IF Head(addr).index + 1 \in DOMAIN value
              THEN Get(value[Head(addr).index + 1], Tail(addr))
              ELSE Absent
         ELSE Get(value[Head(addr).key], Tail(addr))

\* The answer with the value at a bound address replaced.
RECURSIVE Put(_, _, _)
Put(value, addr, v) ==
    IF addr = <<>> THEN v
    ELSE IF "index" \in DOMAIN Head(addr)
         THEN [value EXCEPT ![Head(addr).index + 1] = Put(@, Tail(addr), v)]
         ELSE [value EXCEPT ![Head(addr).key] = Put(@, Tail(addr), v)]

\* this.orders[$i].rate, this.orders[$i].lineItems[$j].qty and .amount
RateAddr == <<Key("orders"), Var("$i"), Key("rate")>>
QtyAddr == <<Key("orders"), Var("$i"), Key("lineItems"), Var("$j"), Key("qty")>>
AmountAddr == <<Key("orders"), Var("$i"), Key("lineItems"), Var("$j"), Key("amount")>>

\* CALC of amount: this.orders[$i].rate * this.orders[$i].lineItems[$j].qty
AmountFormula == [op |-> "mul", left |-> RateAddr, right |-> QtyAddr]

\* The root answer object `this`.
This == [orders |-> orders]

\* The formula evaluated for the row with the given bindings: its addresses
\* are bound and read from the root answer.
EvalInRow(fm, this, bindings) ==
    Eval(fm, [a \in {fm.left, fm.right} |-> Get(this, Bind(a, bindings))])

NoRowEdit == [key |-> "none", bindings |-> <<>>]

RowInit ==
    /\ orders = <<>>
    /\ rowWork = <<>>
    /\ rowEdit = NoRowEdit

(***************************************************************************)
(* SubmitDialog (components/ai-form-helper/submit-dialog.tsx)              *)
(***************************************************************************)
MaxRequests == 2
MaxTimers == 2

DialogInit ==
    /\ open = FALSE
    /\ groupId = ""
    /\ authToken = ""
    /\ status = "idle"
    /\ errorMessage = ""
    /\ inflight = 0
    /\ resetTimers = 0

\* FormBuilder's "Submit to Server" button: setSubmitOpen(true).
OpenDialog ==
    /\ ~open
    /\ open' = TRUE
    /\ UNCHANGED <<groupId, authToken, status, errorMessage, inflight, resetTimers>>
    /\ UNCHANGED <<formVars, masterVars, rowVars, chatVars, eventVars>>

\* The inputs are rendered while the dialog shows neither result view.
FormShown == open /\ status \notin {"success", "error"}

setGroupId(v) ==
    /\ FormShown
    /\ groupId' = v
    /\ UNCHANGED <<open, authToken, status, errorMessage, inflight, resetTimers>>
    /\ UNCHANGED <<formVars, masterVars, rowVars, chatVars, eventVars>>

setAuthToken(v) ==
    /\ FormShown
    /\ authToken' = v
    /\ UNCHANGED <<open, groupId, status, errorMessage, inflight, resetTimers>>
    /\ UNCHANGED <<formVars, masterVars, rowVars, chatVars, eventVars>>

\* handleSubmit up to its await: the Submit button is enabled only with both
\* inputs filled and status not loading.
handleSubmit ==
    /\ FormShown
    /\ status # "loading"
    /\ groupId # "" /\ authToken # ""
    /\ inflight < MaxRequests
    /\ status' = "loading"
    /\ errorMessage' = ""
    /\ inflight' = inflight + 1
    /\ UNCHANGED <<open, groupId, authToken, resetTimers>>
    /\ UNCHANGED <<formVars, masterVars, rowVars, chatVars, eventVars>>

\* handleSubmit after its await: the response is ok, or it is not ok or
\* the request threw.
RequestSettles(ok) ==
    /\ inflight > 0
    /\ inflight' = inflight - 1
    /\ status' = IF ok THEN "success" ELSE "error"
    /\ errorMessage' = IF ok THEN errorMessage ELSE "HTTP 500"
    /\ UNCHANGED <<open, groupId, authToken, resetTimers>>
    /\ UNCHANGED <<formVars, masterVars, rowVars, chatVars, eventVars>>

\* A delayed reset that is dropped when a submission is loading.
DelayedReset_UnlessLoading ==
    /\ resetTimers > 0
    /\ resetTimers' = resetTimers - 1
    /\ status' = IF status = "loading" THEN status ELSE "idle"
    /\ errorMessage' = IF status = "loading" THEN errorMessage ELSE ""
    /\ UNCHANGED <<open, groupId, authToken, inflight>>
    /\ UNCHANGED <<formVars, masterVars, rowVars, chatVars, eventVars>>

\* The callback handleClose passed to setTimeout runs, 200 ms after the close.
DelayedReset ==
    /\ resetTimers > 0
    /\ resetTimers' = resetTimers - 1
    /\ status' = "idle"
    /\ errorMessage' = ""
    /\ UNCHANGED <<open, groupId, authToken, inflight>>
    /\ UNCHANGED <<formVars, masterVars, rowVars, chatVars, eventVars>>

\* handleClose (Cancel, Close, Escape, click outside): ignored while loading.
handleClose ==
    /\ open
    /\ status # "loading"
    /\ resetTimers < MaxTimers
    /\ open' = FALSE
    /\ resetTimers' = resetTimers + 1
    /\ UNCHANGED <<groupId, authToken, status, errorMessage, inflight>>
    /\ UNCHANGED <<formVars, masterVars, rowVars, chatVars, eventVars>>

\* The Try Again button of the error view.
TryAgain ==
    /\ open
    /\ status = "error"
    /\ status' = "idle"
    /\ UNCHANGED <<open, groupId, authToken, errorMessage, inflight, resetTimers>>
    /\ UNCHANGED <<formVars, masterVars, rowVars, chatVars, eventVars>>

setGroupIds == \E v \in {"", "g1"} : setGroupId(v)

setAuthTokens == \E v \in {"", "t1"} : setAuthToken(v)

RequestSettled == \E ok \in BOOLEAN : RequestSettles(ok)

DialogNext ==
    \/ OpenDialog
    \/ setGroupIds
    \/ setAuthTokens
    \/ handleSubmit
    \/ RequestSettled
    \/ handleClose
    \/ TryAgain
    \/ DelayedReset

(***************************************************************************)
(* AIChatPanel (components/ai-form-helper/ai-chat-panel.tsx)               *)
(***************************************************************************)
MaxMessages == 4
MaxClears == 1

NoMessage == [id |-> <<>>, role |-> "none", text |-> "none"]

\* What a reply may consist of: prose, a json:schema block, a json:schema
\* block that does not parse followed by a json block of a form, a json block
\* of a form, a json block of something else.
Texts == {"prose", "schemaBlock", "brokenSchemaBlockThenForm", "formBlock", "otherBlock"}

\* extractSchemaFromText: the schema of the first json:schema block if it
\* parses (null if it does not), otherwise of the first json block that
\* parses and looks like a form schema, otherwise null.
extractSchemaFromText(text) ==
    CASE text = "schemaBlock" -> "schema"
      [] text = "brokenSchemaBlockThenForm" -> Null
      [] text = "formBlock" -> "schema"
      [] OTHER -> Null

\* String.prototype.trim on the inputs of the model.
Trim(v) == IF v = "  " THEN "" ELSE v

isLoading == chatStatus \in {"streaming", "submitted"}

ChatInit ==
    /\ messages = <<>>
    /\ chatStatus = "ready"
    /\ activeResponse = NoMessage
    /\ input = ""
    /\ lastProcessedMessageRef = <<>>
    /\ schemaUpdates = <<>>
    /\ clears = 0

\* An effect that does not wait for the reply to be complete.
SchemaToApply_WhileStreaming(msgs, st, ref) ==
    IF msgs = <<>> THEN Null
    ELSE LET lastMessage == msgs[Len(msgs)] IN
         IF lastMessage.role # "assistant" \/ lastMessage.id = ref THEN Null
         ELSE extractSchemaFromText(lastMessage.text)

\* The effect on [messages, status]: the schema to hand to onSchemaUpdate, or
\* Null when the effect returns without calling it.
SchemaToApply(msgs, st, ref) ==
    IF st # "ready" \/ msgs = <<>> THEN Null
    ELSE LET lastMessage == msgs[Len(msgs)] IN
         IF lastMessage.role # "assistant" \/ lastMessage.id = ref THEN Null
         ELSE extractSchemaFromText(lastMessage.text)

\* The effect runs after a change of messages or status.
RunEffect(msgs, st) ==
    IF SchemaToApply(msgs, st, lastProcessedMessageRef) # Null
    THEN /\ schemaUpdates' = Append(schemaUpdates, [id |-> msgs[Len(msgs)].id, clears |-> clears])
         /\ lastProcessedMessageRef' = msgs[Len(msgs)].id
    ELSE UNCHANGED <<schemaUpdates, lastProcessedMessageRef>>

NewId == <<clears, Len(messages) + 1>>

\* The user types in the message box (disabled while the AI is answering).
setInput(v) ==
    /\ ~isLoading
    /\ input' = v
    /\ UNCHANGED <<messages, chatStatus, activeResponse, lastProcessedMessageRef,
                   schemaUpdates, clears>>
    /\ UNCHANGED <<formVars, masterVars, rowVars, dialogVars, eventVars>>

\* handleSubmit of the chat form: returns on a blank input or while loading,
\* otherwise sends the message and empties the box.
sendMessage ==
    /\ Trim(input) # ""
    /\ ~isLoading
    /\ Len(messages) < MaxMessages
    /\ messages' = Append(messages, [id |-> NewId, role |-> "user", text |-> input])
    /\ chatStatus' = "submitted"
    /\ input' = ""
    /\ RunEffect(messages', chatStatus')
    /\ UNCHANGED <<activeResponse, clears>>
    /\ UNCHANGED <<formVars, masterVars, rowVars, dialogVars, eventVars>>

\* A part of the reply arrives: the reply's message replaces the last message
\* if that is the reply, and is added to the list otherwise.
StreamChunk(t) ==
    /\ isLoading
    /\ LET m == [id |-> IF activeResponse = NoMessage THEN NewId ELSE activeResponse.id,
                 role |-> "assistant", text |-> t]
       IN /\ activeResponse' = m
          /\ IF messages # <<>> /\ messages[Len(messages)].id = m.id
             THEN messages' = [messages EXCEPT ![Len(messages)] = m]
             ELSE /\ Len(messages) < MaxMessages
                  /\ messages' = Append(messages, m)
    /\ chatStatus' = "streaming"
    /\ RunEffect(messages', chatStatus')
    /\ UNCHANGED <<input, clears>>
    /\ UNCHANGED <<formVars, masterVars, rowVars, dialogVars, eventVars>>

\* The reply is complete, or the user stopped it: status is ready again.
StreamFinish ==
    /\ chatStatus = "streaming"
    /\ chatStatus' = "ready"
    /\ activeResponse' = NoMessage
    /\ RunEffect(messages, chatStatus')
    /\ UNCHANGED <<messages, input, clears>>
    /\ UNCHANGED <<formVars, masterVars, rowVars, dialogVars, eventVars>>

\* The request fails.
StreamError ==
    /\ isLoading
    /\ chatStatus' = "error"
    /\ activeResponse' = NoMessage
    /\ RunEffect(messages, chatStatus')
    /\ UNCHANGED <<messages, input, clears>>
    /\ UNCHANGED <<formVars, masterVars, rowVars, dialogVars, eventVars>>

\* clearChat: the messages are removed and the processed reply is forgotten.
clearChat ==
    /\ messages # <<>>
    /\ clears < MaxClears
    /\ messages' = <<>>
    /\ lastProcessedMessageRef' = <<>>
    /\ clears' = clears + 1
    /\ UNCHANGED <<chatStatus, activeResponse, input, schemaUpdates>>
    /\ UNCHANGED <<formVars, masterVars, rowVars, dialogVars, eventVars>>

setInputs == \E v \in {"", "  ", "add a phone field"} : setInput(v)

StreamChunks == \E t \in Texts : StreamChunk(t)

ChatNext ==
    \/ setInputs
    \/ sendMessage
    \/ StreamChunks
    \/ StreamFinish
    \/ StreamError
    \/ clearChat

(***************************************************************************)
(* WideEvent (lib/source.ts)                                               *)
(***************************************************************************)
MaxOperations == 3
MaxEmits == 2

\* currentOperation = null
NoOperation == [name |-> "none", status |-> "none", startTime |-> 0]

OperationNames == {"validate", "generate"}

EventInit ==
    /\ currentOperation = NoOperation
    /\ operations = <<>>
    /\ started = 0
    /\ emitted = 0

\* endOperation that pushes the operation without setting its status.
endOperation_LeavesStarted(cur, ops, st) ==
    IF cur # NoOperation
    THEN [currentOperation |-> NoOperation, operations |-> Append(ops, cur)]
    ELSE [currentOperation |-> cur, operations |-> ops]

\* endOperation(status): the open operation gets the status and is pushed to
\* context.operations; with no open operation nothing happens.
endOperation(cur, ops, st) ==
    IF cur # NoOperation
    THEN [currentOperation |-> NoOperation,
          operations |-> Append(ops, [cur EXCEPT !.status = st])]
    ELSE [currentOperation |-> cur, operations |-> ops]

\* startOperation(name): an operation that is still open is ended with
\* success first.
StartOperation(name) ==
    /\ started < MaxOperations
    /\ LET ev == IF currentOperation # NoOperation
                 THEN endOperation(currentOperation, operations, "success")
                 ELSE [currentOperation |-> currentOperation, operations |-> operations]
       IN /\ operations' = ev.operations
          /\ currentOperation' = [name |-> name, status |-> "started",
                                  startTime |-> started + 1]
    /\ started' = started + 1
    /\ UNCHANGED emitted
    /\ UNCHANGED <<formVars, masterVars, rowVars, dialogVars, chatVars>>

EndOperation(st) ==
    /\ LET ev == endOperation(currentOperation, operations, st)
       IN /\ operations' = ev.operations
          /\ currentOperation' = ev.currentOperation
    /\ UNCHANGED <<started, emitted>>
    /\ UNCHANGED <<formVars, masterVars, rowVars, dialogVars, chatVars>>

\* emit(): an operation that is still open is ended with success, then the
\* event is logged.
Emit ==
    /\ emitted < MaxEmits
    /\ LET ev == IF currentOperation # NoOperation
                 THEN endOperation(currentOperation, operations, "success")
                 ELSE [currentOperation |-> currentOperation, operations |-> operations]
       IN /\ operations' = ev.operations
          /\ currentOperation' = ev.currentOperation
    /\ emitted' = emitted + 1
    /\ UNCHANGED started
    /\ UNCHANGED <<formVars, masterVars, rowVars, dialogVars, chatVars>>

StartOperations == \E name \in OperationNames : StartOperation(name)

EndOperations == \E st \in {"success", "error"} : EndOperation(st)

EventNext ==
    \/ StartOperations
    \/ EndOperations
    \/ Emit

AppInit == RowInit /\ DialogInit /\ ChatInit /\ EventInit

RECURSIVE LineCount(_)
LineCount(os) == IF os = <<>> THEN 0 ELSE Len(Head(os).lineItems) + LineCount(Tail(os))

RowCount == Len(orders) + LineCount(orders)

\* The user adds a row to orders.
AddOrder ==
    /\ rowWork = <<>>
    /\ RowCount < MaxRows
    /\ orders' = Append(orders, [rate |-> Absent, lineItems |-> <<>>])
    /\ UNCHANGED <<rowWork, rowEdit>>
    /\ UNCHANGED <<formVars, masterVars, dialogVars, chatVars, eventVars>>

\* The user adds a row to the lineItems of order i.
AddLineItem(i) ==
    /\ rowWork = <<>>
    /\ RowCount < MaxRows
    /\ orders' = [orders EXCEPT ![i + 1].lineItems = Append(@, [qty |-> Absent, amount |-> Absent])]
    /\ UNCHANGED <<rowWork, rowEdit>>
    /\ UNCHANGED <<formVars, masterVars, dialogVars, chatVars, eventVars>>

\* The user edits qty in row j of order i: amount of that row is re-evaluated.
EditQty(i, j, v) ==
    /\ rowWork = <<>>
    /\ orders' = Put(This, Bind(QtyAddr, <<i, j>>), v).orders
    /\ rowWork' = << <<i, j>> >>
    /\ rowEdit' = [key |-> "qty", bindings |-> <<i, j>>]
    /\ UNCHANGED <<formVars, masterVars, dialogVars, chatVars, eventVars>>

\* The user edits rate of order i: amount is re-evaluated in every row of
\* that order's lineItems, in one pass.
EditRate(i, v) ==
    /\ rowWork = <<>>
    /\ orders' = Put(This, Bind(RateAddr, <<i>>), v).orders
    /\ rowWork' = [j \in 1..Len(orders[i + 1].lineItems) |-> <<i, j - 1>>]
    /\ rowEdit' = [key |-> "rate", bindings |-> <<i>>]
    /\ UNCHANGED <<formVars, masterVars, dialogVars, chatVars, eventVars>>

\* The CALC of amount fires for the next row of the pass, with $i and $j bound
\* to that row; a failed evaluation writes nothing.
FireRow ==
    /\ rowWork # <<>>
    /\ LET b == Head(rowWork)
           r == EvalInRow(AmountFormula, This, b)
       IN orders' = IF r = EvalError THEN orders
                    ELSE Put(This, Bind(AmountAddr, b), r).orders
    /\ rowWork' = Tail(rowWork)
    /\ UNCHANGED rowEdit
    /\ UNCHANGED <<formVars, masterVars, dialogVars, chatVars, eventVars>>

AddLineItems == \E i \in 0..(Len(orders) - 1) : AddLineItem(i)

EditQtys ==
    \E i \in 0..(Len(orders) - 1) :
        \E j \in 0..(Len(orders[i + 1].lineItems) - 1) :
            \E v \in {"2", "3"} : EditQty(i, j, v)

EditRates == \E i \in 0..(Len(orders) - 1) : \E v \in {"50"} : EditRate(i, v)

RowNext ==
    \/ AddOrder
    \/ AddLineItems
    \/ EditQtys
    \/ EditRates
    \/ FireRow

(***************************************************************************)
(* Specifications                                                          *)
(***************************************************************************)
Init == FormInit /\ MasterInit /\ AppInit

Next == FormNext

Spec == Init /\ [][Next]_vars

\* The Master Manager on its own, shared by the fields of the chain schema.
MasterSpecInit == FormInit /\ schema = "chain" /\ MasterInit /\ AppInit

MasterSpec == MasterSpecInit /\ [][MasterNext]_vars

\* The Master Manager resolving three partitions of the location master.
CacheNext ==
    \/ PartitionGetMasters
    \/ ResumePersistGets
    \/ FetchFulfilleds
    \/ ResumeFetches
    \/ ResumePersistSets
    \/ ResumeShareds

CacheSpec == MasterSpecInit /\ [][CacheNext]_vars

\* The Master Manager with the master changing on the server and the client
\* checking its version.
VersionNext ==
    \/ GetMasters
    \/ ResumePersistGets
    \/ FetchFulfilleds
    \/ ResumeFetches
    \/ ResumePersistSets
    \/ ResumeShareds
    \/ MasterDataChanges
    \/ IntervalElapses
    \/ VersionCheck

VersionSpec == MasterSpecInit /\ [][VersionNext]_vars

\* Sessions over the schemas with calculated and asynchronously aggregated
\* fields, including the close of the session.
SessionInit == FormInitOver(SessionSchemas) /\ MasterInit /\ AppInit

SessionNext ==
    \/ FormNext
    \/ AsyncResolves
    \/ CloseSession

SessionSpec == SessionInit /\ [][SessionNext]_vars

\* The parts of the form builder outside a form session start next to an
\* unbuilt address form and an empty Master Manager.
AppSpecInit == FormInitOver({"address"}) /\ MasterInit /\ AppInit

\* A form with a repeating group nested in a repeating group.
RowSpec == AppSpecInit /\ [][RowNext]_vars

\* The submit dialog of the form builder.
DialogSpec == AppSpecInit /\ [][DialogNext]_vars

\* The chat panel of the form builder.
ChatSpec == AppSpecInit /\ [][ChatNext]_vars

\* One wide event and the operations recorded in it.
EventSpec == AppSpecInit /\ [][EventNext]_vars

\* Sessions started in client mode and in server mode.
ModeInit == FormInitIn(ModeSchemas, Modes) /\ MasterInit /\ AppInit

ModeSpec == ModeInit /\ [][SessionNext]_vars

\* Two sessions on the same schema, run one after the other and given the
\* same edits and the same fetch results.
TwinSchemas == {"address", "report"}

MaxReceived == 2

IsPrefix(a, b) == Len(a) <= Len(b) /\ SubSeq(b, 1, Len(a)) = a

\* The inputs h are the beginning of the inputs the earlier session was given.
Follows(h, t) ==
    /\ IsPrefix(h.edits, t.edits)
    /\ \A f \in AllFields : IsPrefix(h.results[f], t.results[f])

\* The session takes at most MaxReceived edits, and the second session is
\* given what the first was given.
WithinInputs ==
    /\ Len(received.edits) <= MaxReceived
    /\ twin.on => Follows(received, twin)

\* Every edit has been propagated and nothing is pending.
AtEnd == phase = "open" /\ Idle /\ editQueue = <<>>

\* What a session ends with: field values, option sets, access states and
\* diagnostics.
Observable ==
    [answer |-> answer, options |-> options, access |-> access,
     diagnostics |-> diagnostics]

\* The first session has ended; the second one starts on the same schema
\* from the same empty answer.
Restart ==
    /\ AtEnd
    /\ received.on
    /\ ~twin.on
    /\ twin' = [on |-> TRUE, edits |-> received.edits, results |-> received.results,
                raced |-> received.raced, final |-> Observable]
    /\ received' = NoInputs
    /\ phase' = "unbuilt"
    /\ answer' = [f \in AllFields |-> Absent]
    /\ access' = [f \in AllFields |-> DefaultAccess(schema, f)]
    /\ options' = [f \in AllFields |-> {}]
    /\ editQueue' = <<>>
    /\ current' = NoEdit
    /\ worklist' = <<>>
    /\ predIdx' = 1
    /\ fetchPending' = [f \in AllFields |-> NoFetch]
    /\ fetchError' = [f \in AllFields |-> FALSE]
    /\ passCleared' = {}
    /\ lastFiring' = NoFiring
    /\ diagnostics' = <<>>
    /\ validation' = [f \in AllFields |-> Valid]
    /\ invalidated' = {}
    /\ discarded' = {}
    /\ UNCHANGED <<schema, mode>>
    /\ UNCHANGED masterVars
    /\ UNCHANGED appVars

TwinAcceptEdit == AcceptEdit /\ WithinInputs'

TwinFetchResolves == FetchResolves /\ WithinInputs'

TwinFetchFails == FetchFails /\ WithinInputs'

TwinAsyncResolves == AsyncResolves /\ WithinInputs'

TwinInit ==
    /\ FormStart(TwinSchemas, {"client"})
    /\ received = NoInputs
    /\ MasterInit
    /\ AppInit

TwinNext ==
    \/ Build
    \/ OpenSession
    \/ UserEdits
    \/ TwinAcceptEdit
    \/ RejectEdit
    \/ FirePredicate
    \/ NextField
    \/ TwinFetchResolves
    \/ TwinFetchFails
    \/ TwinAsyncResolves
    \/ Restart

TwinSpec == TwinInit /\ [][TwinNext]_vars

\* The scheduler keeps stepping a running pass, and a master fetch settles
\* (with rows, or with an error or timeout raised by the source).
FairSpec ==
    /\ Init
    /\ [][Next]_vars
    /\ WF_vars(FirePredicate)
    /\ WF_vars(NextField)
    /\ WF_vars(FetchResolves \/ FetchFails)

(***************************************************************************)
(* Properties                                                              *)
(***************************************************************************)
\* The containers around a field, nearest first up to the root.
RECURSIVE Ancestors(_, _)
Ancestors(s, f) ==
    IF ParentOf(s, f) = Root
    THEN {}
    ELSE {ParentOf(s, f)} \cup Ancestors(s, ParentOf(s, f))

\* Fields whose options are filtered on p, directly or down the chain.
RECURSIVE FilterDescendants(_, _, _)
FilterDescendants(s, p, n) ==
    IF n = 0
    THEN {}
    ELSE LET direct == {f \in Fields(s) : FilterParent(s, f) = p}
         IN direct \cup UNION {FilterDescendants(s, f, n - 1) : f \in direct}

FilterChain(s, p) == FilterDescendants(s, p, Cardinality(Fields(s)))

\* C1 (gate invariant): in every reachable state a field with a GONE ancestor
\* is effectively GONE and holds no value in the Answer Store, whatever its own
\* access state says and whichever of its own predicates have fired.
C1_GateInvariant ==
    \A f \in Fields(schema) :
        (\E a \in Ancestors(schema, f) : access[a].visibility = "GONE")
            => /\ EffectiveVisibility(schema, access, f) = "GONE"
               /\ answer[f] = Absent

\* C1 witness: the gate of vehicleDetails is closed, regOwner's own access
\* state says VISIBLE, and its COPY predicate has just fired on a set owner.
C1_Witness ==
    /\ schema = "vehicle"
    /\ access["vehicleDetails"].visibility = "GONE"
    /\ access["regOwner"].visibility = "VISIBLE"
    /\ answer["owner"] # Absent
    /\ worklist # <<>>
    /\ Head(worklist) = "regOwner"
    /\ predIdx = 3
    /\ lastFiring.key = "regOwner"

\* C2 (cascade clear): when the pass of an edit that changed a parent's value
\* is over, no field filtered on that parent, directly or down the chain,
\* holds a value.
C2_CascadeClear ==
    (phase = "open" /\ Idle /\ current.key # "none")
        => \A f \in FilterChain(schema, current.key) : answer[f] = Absent

\* C2 witness: state changed from Maharashtra to Karnataka and the pass, now
\* over, removed the values of district and block.
C2_Witness ==
    /\ schema = "chain"
    /\ Idle
    /\ current = [key |-> "state", old |-> "Maharashtra", new |-> "Karnataka"]
    /\ {"district", "block"} \subseteq passCleared

\* C7 (OPTION_FILTER result): once propagation is over and the field's fetch
\* has returned, the option set of a filtered field is exactly the values of
\* its column over the master rows whose parent column equals the parent's
\* current value.
C7_OptionFilterResult ==
    (phase = "open" /\ Idle)
        => \A f \in Fields(schema) :
              LET p == FilterParent(schema, f) IN
              (p # "none" /\ answer[p] # Absent /\ ~fetchError[f])
                  => options[f] =
                        {r[ColumnKey(schema, f)] :
                            r \in {x \in MasterRows : x[ColumnKey(schema, p)] = answer[p]}}

\* C7 witness (Scenario A): Maharashtra, then Karnataka; district offers
\* Karnataka's districts only.
C7_Witness ==
    /\ schema = "chain"
    /\ Idle
    /\ current = [key |-> "state", old |-> "Maharashtra", new |-> "Karnataka"]
    /\ ~fetchError["district"]
    /\ options["district"] = {"Bengaluru"}

C9_MergeByProperty ==
    lastFiring.key # "none"
        => \A p \in AccessProps :
              /\ p \in DOMAIN lastFiring.matrix
                    => access[lastFiring.key][p] = lastFiring.matrix[p]
              /\ p \notin DOMAIN lastFiring.matrix
                    => access[lastFiring.key][p] = lastFiring.prior[p]

\* C9 witness: a matrix that names visibility only fired on a field that was
\* mandatory; mandatory is kept.
C9_Witness ==
    /\ lastFiring.key = "spouseName"
    /\ DOMAIN lastFiring.matrix = {"visibility"}
    /\ lastFiring.prior.mandatory = TRUE
    /\ lastFiring.prior.visibility = "VISIBLE"
    /\ access["spouseName"].visibility = "GONE"

\* C10 (Scenario B): once propagation is over, spouseName is VISIBLE exactly
\* when maritalStatus is Married, and it is not mandatory while hidden.
C10_ScenarioB ==
    (schema \in {"spouseLogic", "spouseRecipe"} /\ phase = "open" /\ Idle)
        => /\ access["spouseName"].visibility = "VISIBLE"
                <=> answer["maritalStatus"] = "Married"
           /\ access["spouseName"].visibility # "VISIBLE"
                => ~access["spouseName"].mandatory

\* C4 (serialized propagation): the queue only grows at its tail and shrinks
\* at its head, the head is taken only when no pass is running, and the pass
\* that starts is the one of the edit that was at the head.
C4_SerializedPropagation ==
    [][ /\ editQueue' # editQueue
            => \/ /\ Len(editQueue') = Len(editQueue) + 1
                  /\ SubSeq(editQueue', 1, Len(editQueue)) = editQueue
               \/ /\ editQueue # <<>>
                  /\ editQueue' = Tail(editQueue)
                  /\ Idle
        /\ current' # current
            => /\ Idle
               /\ editQueue # <<>>
               /\ editQueue' = Tail(editQueue)
               /\ current'.key = Head(editQueue).key
               /\ current'.new = Head(editQueue).value
        /\ ~Idle /\ worklist' # worklist
            => \/ worklist' = Tail(worklist)
               \/ /\ Len(worklist') > Len(worklist)
                  /\ SubSeq(worklist', 1, Len(worklist)) = worklist
      ]_vars

\* C4 witness: two edits wait in the queue while the pass of an accepted edit
\* is still running.
C4_Witness ==
    /\ Len(editQueue) = MaxQueue
    /\ current.key # "none"
    /\ ~Idle
    /\ editQueue[1] # editQueue[2]

\* C5 (termination): a running pass always reaches a state with nothing left
\* to re-evaluate.
C5_PropagationTerminates == (worklist # <<>>) ~> (worklist = <<>>)

\* C5 witness: a pass in which the cascade cleared district, which declares
\* dependentKeys, and the CALC of fullAddress wrote back, has come to rest.
C5_Witness ==
    /\ schema = "address"
    /\ Idle
    /\ current.key = "state"
    /\ "district" \in passCleared
    /\ answer["fullAddress"] # Absent

\* Fields reached from the set S along one to n dependentKeys edges.
RECURSIVE ReachedWithin(_, _, _)
ReachedWithin(s, S, n) ==
    IF n = 0
    THEN {}
    ELSE LET next == UNION {Range(DependentKeys(s, f)) \cap Fields(s) : f \in S}
         IN next \cup ReachedWithin(s, next, n - 1)

\* Some field reaches itself along dependentKeys edges.
CycleExists(s) ==
    \E f \in Fields(s) : f \in ReachedWithin(s, {f}, Cardinality(Fields(s)))

FetchesOf(key) == {i \in FetchIds : promises[i].state # "unused"
                                      /\ buildCacheKey(promises[i].config) = key}

InFlightOf(key) == {i \in FetchesOf(key) : promises[i].state = "pending"}

FailedOf(key) == {i \in FetchesOf(key) : promises[i].state = "rejected"}

\* Every caller that got an answer got the row set of a fulfilled fetch of
\* the key it asked for.
CallersGetTheirRows ==
    \A c \in Callers :
        callers[c].pc = "done"
            => /\ callers[c].result.config = callers[c].config
               /\ callers[c].result.fetch \in FetchIds
               /\ promises[callers[c].result.fetch].state = "fulfilled"
               /\ promises[callers[c].result.fetch].config = callers[c].config

FireStep == phase = "open" /\ worklist # <<>> /\ predIdx' = predIdx + 1

FiringField == Head(worklist)

FiringPredicate == Predicates(schema, Head(worklist))[predIdx]

\* A firing of a CALC predicate whose condition holds and whose formula can
\* be evaluated.
CalcFires ==
    /\ FireStep
    /\ FiringPredicate.action = "CALC"
    /\ ~Fails(FiringPredicate, answer)
    /\ Holds(FiringPredicate.condition, answer)

\* C11 (null-clears): a CALC firing whose formula evaluates to null removes
\* the field's key from the Answer Store, a firing with a non-null result
\* replaces the field's value by the result, and no field ever stores a
\* literal null.
C11_NullClears ==
    [][ /\ \A f \in Fields(schema) : answer'[f] # Null
        /\ CalcFires =>
              LET r == Eval(FiringPredicate.formula, answer)
              IN IF r = Null
                 THEN answer'[FiringField] = Absent
                 ELSE answer'[FiringField] = r
      ]_vars

\* C11 witness: total held 150; qty was cleared and the pass, in which the
\* formula of total returned null, removed total.
C11_Witness ==
    /\ schema = "order"
    /\ Idle
    /\ current = [key |-> "qty", old |-> "3", new |-> Absent]
    /\ answer["price"] = "50"
    /\ answer["total"] = Absent
    /\ "total" \in passCleared

\* Fields with one unconditional CALC predicate, listed in the dependentKeys
\* of every field their formula reads.
SubscribedCalcFields(s) ==
    {f \in Fields(s) :
        \E i \in 1..Len(Predicates(s, f)) :
            LET p == Predicates(s, f)[i] IN
            /\ p.action = "CALC"
            /\ p.condition = Always
            /\ \A k \in FormulaKeys(p.formula) :
                  k \in Fields(s) /\ f \in Range(DependentKeys(s, k))}

CalcFormula(s, f) ==
    LET ps == Predicates(s, f)
    IN ps[CHOOSE i \in 1..Len(ps) : ps[i].action = "CALC"].formula

\* C12 (CALC consistency, Scenario C): whenever a pass is over, a CALC field
\* subscribed to all its inputs holds its formula's value on the current
\* answer, and is absent when the formula yields null; qty = 3 and price = 50
\* give total = 150.
C12_CalcConsistency ==
    (phase = "open" /\ Idle)
        => /\ \A f \in SubscribedCalcFields(schema) :
                LET r == Eval(CalcFormula(schema, f), answer)
                IN /\ r = Null => answer[f] = Absent
                   /\ r \notin {Null, EvalError} => answer[f] = r
           /\ (schema = "order" /\ answer["qty"] = "3" /\ answer["price"] = "50")
                => answer["total"] = "150"
           /\ (schema = "order" /\ Absent \in {answer["qty"], answer["price"]})
                => answer["total"] = Absent

\* C12 witness: price was entered before qty, and total is 150.
C12_Witness ==
    /\ schema = "order"
    /\ Idle
    /\ current = [key |-> "qty", old |-> Absent, new |-> "3"]
    /\ answer["price"] = "50"
    /\ answer["total"] = "150"

\* The engine state a predicate is fired on, after the step.
EngineStateAfter ==
    [answer |-> answer', access |-> access', options |-> options',
     pending |-> fetchPending', error |-> fetchError', firing |-> lastFiring',
     diagnostics |-> diagnostics', validation |-> validation']

\* C13 (CALC idempotence): after a CALC predicate has fired, firing the same
\* predicate again, the fields its formula reads being unchanged, leaves the
\* Answer Store exactly as the first firing left it.
C13_CalcIdempotent ==
    [][ (CalcFires /\ FiringField \notin FormulaKeys(FiringPredicate.formula))
            => ApplyGate(schema,
                         Execute(schema, FiringField, FiringPredicate,
                                 EngineStateAfter).answer,
                         access') = answer'
      ]_vars

\* C13 witness: a change of state cleared district, so fullAddress was
\* scheduled twice and its CALC has fired twice in a row on the same inputs.
C13_Witness ==
    /\ schema = "address"
    /\ current.key = "state"
    /\ current.new # Absent
    /\ "district" \in passCleared
    /\ worklist = <<"fullAddress">>
    /\ predIdx = 2
    /\ answer["fullAddress"] = answer["state"] \o ", " \o Absent

\* C14 (a predicate failure never aborts the pass): a firing whose evaluation
\* fails changes no value, access state or option set and adds one diagnostic
\* for it; everything scheduled stays scheduled; every fetch error adds a
\* diagnostic as well; and the diagnostics list only grows until the pass is
\* over and the next edit starts a new list.
C14_FailureIsDiagnosed ==
    [][ /\ (FireStep /\ Fails(FiringPredicate, answer))
            => /\ answer' = answer
               /\ access' = access
               /\ options' = options
               /\ fetchPending' = fetchPending
               /\ worklist' = worklist
               /\ diagnostics' = Append(diagnostics,
                      [key |-> FiringField, action |-> FiringPredicate.action,
                       error |-> "EvaluationError"])
        /\ \A f \in Fields(schema) :
              (fetchError'[f] /\ ~fetchError[f])
                  => /\ Len(diagnostics') = Len(diagnostics) + 1
                     /\ diagnostics'[Len(diagnostics')].key = f
                     /\ diagnostics'[Len(diagnostics')].error = "FetchError"
        /\ diagnostics' # diagnostics
            => \/ /\ Len(diagnostics') = Len(diagnostics) + 1
                  /\ SubSeq(diagnostics', 1, Len(diagnostics)) = diagnostics
               \/ /\ Idle
                  /\ diagnostics' = <<>>
      ]_vars

\* C14 witness: qty was cleared; the CALC of total and the condition of
\* note's first predicate failed and are in the diagnostics, total is
\* untouched, and the COPY of note, evaluated after both, removed note.
C14_Witness ==
    /\ schema = "orderRaw"
    /\ phase = "open"
    /\ Idle
    /\ current = [key |-> "qty", old |-> "3", new |-> Absent]
    /\ diagnostics =
          << [key |-> "total", action |-> "CALC", error |-> "EvaluationError"],
             [key |-> "note", action |-> "APPLY_ACCESS_MATRIX",
              error |-> "EvaluationError"] >>
    /\ answer["total"] = "150"
    /\ answer["note"] = Absent
    /\ "note" \in passCleared

\* The step in which the pending fetch or aggregation call of f fails.
FailStep(f) ==
    /\ fetchPending[f] # NoFetch
    /\ fetchPending'[f] = NoFetch
    /\ diagnostics' # diagnostics

AsyncCalcFields(s) ==
    {f \in Fields(s) :
        \E i \in 1..Len(Predicates(s, f)) : Predicates(s, f)[i].action = "ASYNC_CALC"}

\* The step in which the pending computation of f completes or fails.
SettleStep(f) == fetchPending[f] # NoFetch /\ fetchPending'[f] = NoFetch

\* The step in which the user's edit e joins the queue.
EditStep(e) == phase = "open" /\ editQueue' = Append(editQueue, e)

\* The step in which the head of the queue is taken: accepted or dropped.
TakeStep == phase = "open" /\ editQueue # <<>> /\ editQueue' = Tail(editQueue)

StaysPending(f) == fetchPending[f] # NoFetch /\ fetchPending'[f] # NoFetch

C18_NoWriteAfterClose ==
    [][ phase = "closed"
          => /\ phase' = "closed"
             /\ answer' = answer
             /\ access' = access
             /\ options' = options
             /\ fetchError' = fetchError
             /\ diagnostics' = diagnostics
             /\ worklist' = worklist
             /\ predIdx' = predIdx
             /\ editQueue' = editQueue
             /\ \E f \in Fields(schema) :
                    /\ SettleStep(f)
                    /\ discarded' \in {discarded, discarded \cup {f}}
      ]_vars

\* C18 witness: the session was closed while the districts of Maharashtra were
\* being fetched; the fetch has returned, its rows were discarded and district
\* still has no options.
C18_Witness ==
    /\ schema = "address"
    /\ phase = "closed"
    /\ "district" \in discarded
    /\ fetchPending["district"] = NoFetch
    /\ answer["state"] = "Maharashtra"
    /\ options["district"] = {}
    /\ ~fetchError["district"]

\* Fields reached from t along declared dependentKeys edges.
Reached(s, t) == ReachedWithin(s, {t}, Cardinality(Fields(s)))

\* Fields with a predicate that reads t which are not reached from t.
UndeclaredReaders(s, t) == Readers(s, t) \ (Reached(s, t) \cup {t})

EngineState ==
    [answer |-> answer, access |-> access, options |-> options,
     pending |-> fetchPending, error |-> fetchError, firing |-> lastFiring,
     diagnostics |-> diagnostics, validation |-> validation]

\* C20 (predicate order): the predicates of a field fire one at a time in
\* declared order, the walk leaves the field only when all of them have fired,
\* and each is evaluated against the answer and access state as the earlier
\* predicates of the field left them; so on the order schema, whose total
\* declares CALC before the access predicates that test total, total is
\* mandatory at the end of a pass exactly when the calculated total is 150.
C20_PredicateOrder ==
    [][ /\ FireStep
          => LET st == Execute(schema, FiringField, FiringPredicate, EngineState)
             IN /\ predIdx <= Len(Predicates(schema, FiringField))
                /\ answer' = ApplyGate(schema, st.answer, st.access)
                /\ access' = st.access
                /\ options' = st.options
                /\ Head(worklist') = FiringField
        /\ (phase = "open" /\ worklist # <<>> /\ predIdx' # predIdx + 1 /\ predIdx' # predIdx)
          => /\ predIdx > Len(Predicates(schema, Head(worklist)))
             /\ worklist' = Tail(worklist)
             /\ predIdx' = 1
        /\ (phase = "open" /\ worklist # <<>> /\ worklist' # <<>>)
          => (Head(worklist') = Head(worklist) \/ predIdx' = 1)
        /\ (schema = "order" /\ phase' = "open" /\ Idle')
          => (access'["total"].mandatory <=> answer'["total"] = "150")
      ]_vars

\* C20 witness: on the order schema the pass of an edit to qty or price is
\* over; CALC set total to 150 and the access predicate declared after it saw
\* the new total and made the field mandatory.
C20_Witness ==
    /\ schema = "order"
    /\ phase = "open"
    /\ Idle
    /\ current.key \in {"qty", "price"}
    /\ current.new # Absent
    /\ answer["total"] = "150"
    /\ access["total"].mandatory

\* The firing step passes over a predicate flagged for the other runtime mode.
SkippedByMode ==
    \/ mode = "client" /\ SkipOnClient(FiringPredicate)
    \/ mode = "server" /\ SkipOnServer(FiringPredicate)

\* C21 (mode gating): a predicate flagged skipPredicateExecutionOnClient is
\* neither evaluated nor executed in client mode, and one flagged
\* skipPredicateExecutionOnServer neither in server mode: its firing step
\* changes no value, access state or option set, requests nothing and records
\* no diagnostic. In the other mode, and for a predicate without a flag in
\* both modes, the firing is that of the predicate's condition and action.
C21_ModeGating ==
    [][ FireStep =>
          LET p == FiringPredicate
              f == FiringField
          IN /\ SkippedByMode
                  => /\ answer' = answer
                     /\ access' = access
                     /\ options' = options
                     /\ fetchPending' = fetchPending
                     /\ diagnostics' = diagnostics
             /\ (~SkippedByMode /\ Fails(p, answer))
                  => diagnostics' = Append(diagnostics, Diagnostic(f, p))
             /\ (~SkippedByMode /\ ~Fails(p, answer) /\ Holds(p.condition, answer))
                  => CASE p.action = "ASYNC_CALC" -> fetchPending'[f] = AsyncCall
                       [] p.action = "OPTION_FILTER" ->
                            fetchPending'[f] # NoFetch \/ answer[FilterParent(schema, f)] = Absent
                       [] p.action = "CALC" ->
                            EffectiveVisibility(schema, access, f) = "VISIBLE"
                               => answer'[f] = (IF Eval(p.formula, answer) = Null
                                                THEN Absent
                                                ELSE Eval(p.formula, answer))
                       [] p.action = "COPY" ->
                            EffectiveVisibility(schema, access, f) = "VISIBLE"
                               => answer'[f] = answer[p.field]
                       [] p.action = "APPLY_ACCESS_MATRIX" ->
                            \A k \in DOMAIN p.accessMatrix : access'[f][k] = p.accessMatrix[k]
      ]_vars

\* C21 witness: a server session on the audit schema after qty := 3. The
\* client-only CALC of display did not run, the server-only access predicate
\* of note and the server-only aggregation of totalOrders did, and note's
\* unflagged COPY ran as it does in client mode.
C21_Witness ==
    /\ schema = "audit"
    /\ mode = "server"
    /\ phase = "open"
    /\ Idle
    /\ answer["qty"] = "3"
    /\ answer["display"] = Absent
    /\ answer["totalOrders"] = "120"
    /\ access["note"].mandatory
    /\ answer["note"] = "3"

\* The client session in the same situation: display is calculated, the
\* aggregation was never requested and note is not mandatory.
C21_ClientCase ==
    /\ schema = "audit"
    /\ mode = "client"
    /\ phase = "open"
    /\ Idle
    /\ answer["qty"] = "3"
    /\ answer["display"] = "3"
    /\ answer["totalOrders"] = Absent
    /\ ~access["note"].mandatory
    /\ answer["note"] = "3"

\* Some container of f is INVISIBLE and none is GONE.
UnderInvisible(s, acc, f) ==
    /\ \E a \in Ancestors(s, f) : acc[a].visibility = "INVISIBLE"
    /\ \A a \in Ancestors(s, f) : acc[a].visibility # "GONE"

\* C22 as stated (INVISIBLE does not cascade): a field with an INVISIBLE and no
\* GONE container has its own access state's visibility as its effective
\* visibility, and a step after which it is in that situation has not cleared
\* its value.
C22_InvisibleDoesNotCascade ==
    [][ \A f \in Fields(schema) :
          UnderInvisible(schema, access', f)
            => /\ EffectiveVisibility(schema, access', f) = access'[f].visibility
               /\ answer[f] # Absent => answer'[f] = answer[f]
      ]_vars

\* The half of C22 that holds: no step that leaves a field under an INVISIBLE
\* (and no GONE) container clears the field's value.
C22_ValuesKept ==
    [][ \A f \in Fields(schema) :
          (UnderInvisible(schema, access', f) /\ answer[f] # Absent)
            => answer'[f] = answer[f]
      ]_vars

\* The state C22 is about: panel is INVISIBLE, remark is VISIBLE in its own
\* access state and still holds the value typed while panel was shown.
C22_Situation ==
    /\ schema = "panel"
    /\ phase = "open"
    /\ Idle
    /\ access["panel"].visibility = "INVISIBLE"
    /\ access["remark"].visibility = "VISIBLE"
    /\ answer["remark"] = "x"
    /\ EffectiveVisibility(schema, access, "remark") = "INVISIBLE"

RECURSIVE TopContainer(_, _)
TopContainer(s, f) ==
    IF ParentOf(s, f) = Root THEN f ELSE TopContainer(s, ParentOf(s, f))

C23_RolesSituation ==
    /\ schema = "panel"
    /\ phase = "open"
    /\ Idle
    /\ UserRole \in Roles(schema, "adminNote")
    /\ UserRole \notin EffectiveRoles(schema, "adminNote")
    /\ ~Editable(schema, "adminNote", "y", answer, access, options, fetchPending)

\* The cached partitions and the eviction order without one of them.
CachedKeys(cache) == {cache[i].key : i \in 1..Len(cache)}

Without(cache, k) == SelectSeq(cache, LAMBDA e : e.key # k)

\* The step is a resolve of caller c that used the partition cache: a hit in
\* the memory cache, or an entry cached from the persistent cache or a fetch.
CacheUse(c) ==
    /\ callers'[c] # callers[c]
    /\ \/ callers'[c].pc = "persistSet"
       \/ callers'[c].pc = "done" /\ callers'[c].via \in {"memory", "persistent"}

\* What a use of partition k may do to the cache: k becomes the most recently
\* used entry, the others keep their order, and only when k was not cached
\* and the cache was full is one partition evicted: the least recently used.
LruStep(k) ==
    LET rest == Without(memoryCache, k) IN
    /\ memoryCache' # <<>>
    /\ memoryCache'[Len(memoryCache')].key = k
    /\ IF k \notin CachedKeys(memoryCache) /\ Len(memoryCache) = MemoryCacheSize
       THEN /\ Without(memoryCache', k) = Tail(memoryCache)
            /\ CachedKeys(memoryCache) \ CachedKeys(memoryCache') = {Head(memoryCache).key}
       ELSE /\ Without(memoryCache', k) = rest
            /\ CachedKeys(memoryCache) \subseteq CachedKeys(memoryCache')

CachedData ==
    {memoryCache[i].data : i \in 1..Len(memoryCache)}
        \cup ({persistentCache[k].data : k \in CacheKeys} \ {NoData})

\* Caller c is handed rows in this step.
Served(c) == callers[c].pc # "done" /\ callers'[c].pc = "done"

\* A version check that reaches the server happens in this step.
Checked == versionChecked = "stale" /\ versionChecked' = "recent"

C25_ServedWhileRecent ==
    /\ serverVersion = 2
    /\ versionChecked = "recent"
    /\ staleFetches = {}
    /\ fetchVersion[1] = 1
    /\ Issued = 1
    /\ callers["block"].pc = "done"
    /\ callers["block"].via = "memory"
    /\ callers["block"].result.fetch = 1
    /\ callers["district"].pc = "done"
    /\ callers["district"].via = "fetch"

\* The rows of the partition that config names are in a cache.
PartitionCached(config) == \E d \in CachedData : d.config = config

\* The fetches issued so far for the partition that config names.
PartitionFetches(config) ==
    {i \in FetchIds : promises[i].state # "unused" /\ promises[i].config = config}

ValidateFires ==
    /\ FireStep
    /\ FiringPredicate.action = "VALIDATE"
    /\ ~SkippedByMode
    /\ ~Fails(FiringPredicate, answer)

\* C27 (VALIDATE): after a VALIDATE predicate has fired, its field is invalid
\* and carries the predicate's error message exactly when the condition
\* evaluated to true, and is valid with no error exactly when it evaluated to
\* false; the firing changes no field's visibility, mandatory or readOnly
\* flag, no value, and no other field's validity.
C27_Validate ==
    [][ ValidateFires =>
            LET f == FiringField
                p == FiringPredicate
            IN /\ validation'[f] = p.errorMessage <=> Holds(p.condition, answer)
               /\ validation'[f] = Valid <=> ~Holds(p.condition, answer)
               /\ \A g \in AllFields \ {f} : validation'[g] = validation[g]
               /\ access' = access
               /\ answer' = answer
               /\ options' = options
      ]_vars

\* C27 witness: the end date 2 is not after the start date 3; the VALIDATE
\* predicate of endDate has fired, the field is invalid with the error
\* message, still mandatory, and keeps its value.
C27_Witness ==
    /\ schema = "booking"
    /\ Idle
    /\ answer["startDate"] = "3"
    /\ answer["endDate"] = "2"
    /\ validation["endDate"] = "End date must be after start date"
    /\ access["endDate"] = [visibility |-> "VISIBLE", mandatory |-> TRUE, readOnly |-> FALSE]

\* C27: the end date 3 is after the start date 2 and the field is valid
\* again after the start date was changed from 3 to 2.
C27_Cleared ==
    /\ schema = "booking"
    /\ Idle
    /\ current = [key |-> "startDate", old |-> "3", new |-> "2"]
    /\ answer["endDate"] = "3"
    /\ validation["endDate"] = Valid

\* C28 (determinism): two sessions on the same schema that start from the
\* empty answer, accept the same sequence of edits and are given the same
\* fetch and aggregation results end with the same field values, option sets,
\* access states and diagnostics, however the completions were timed.
C28_Determinism ==
    (twin.on /\ AtEnd /\ received.edits = twin.edits /\ received.results = twin.results)
        => Observable = twin.final

\* C28: the same, for sessions in which no edit was made to a field while
\* that field's own computation was pending.
C28_DeterminismWithoutRace ==
    (twin.on /\ AtEnd /\ received.edits = twin.edits /\ received.results = twin.results
        /\ ~twin.raced /\ ~received.raced)
        => Observable = twin.final

\* C28: two sessions have ended on the same inputs, one of them with an edit
\* made while the edited field's computation was pending.
C28_Situation ==
    /\ twin.on
    /\ AtEnd
    /\ received.edits = twin.edits
    /\ received.results = twin.results
    /\ Len(received.edits) = 2
    /\ received.raced # twin.raced

\* The value of field g is removed from the Answer Store in this step.
Removed(g) == answer[g] # Absent /\ answer'[g] = Absent

\* The user's edit that empties field g is taken from the queue.
UserCleared(g) == TakeStep /\ Head(editQueue) = [key |-> g, value |-> Absent]

\* Clear-on-cascade: the OPTION_FILTER predicate of g fires after a change of
\* its parent, or the firing leaves g at or below a GONE field.
CascadeCleared(g) ==
    /\ FireStep
    /\ \/ g = FiringField /\ FiringPredicate.action = "OPTION_FILTER"
       \/ EffectiveVisibility(schema, access', g) = "GONE"

\* The CALC predicate of g fires and its formula returns null.
CalcCleared(g) ==
    /\ CalcFires
    /\ g = FiringField
    /\ Eval(FiringPredicate.formula, answer) = Null

\* The COPY predicate of g fires and the field it copies from has no value.
CopyCleared(g) ==
    /\ FireStep
    /\ g = FiringField
    /\ FiringPredicate.action = "COPY"
    /\ answer[FiringPredicate.field] = Absent

\* The Answer Store holds no value before and at form-open.
EmptyAtOpen ==
    /\ phase \in {"unbuilt", "built"} => \A g \in AllFields : answer[g] = Absent
    /\ (phase = "built" /\ phase' = "open") => \A g \in AllFields : answer'[g] = Absent

\* C29 (answer lifecycle): the Answer Store is empty at form-open, and the
\* engine removes a field's value only by a clear-on-cascade; apart from the
\* user emptying the field, no other step removes a value.
C29_AnswerLifecycle ==
    [][ /\ EmptyAtOpen
        /\ \A g \in Fields(schema) :
              Removed(g) => UserCleared(g) \/ CascadeCleared(g)
      ]_vars

\* C29, amended: the Answer Store is empty at form-open, and the engine
\* removes a field's value only by a clear-on-cascade, by a CALC of the field
\* whose formula returns null, or by a COPY into the field from a field that
\* has no value; apart from the user emptying the field, no other step
\* removes a value.
C29_RemovedOnlyByClearCalcOrCopy ==
    [][ /\ EmptyAtOpen
        /\ \A g \in Fields(schema) :
              Removed(g) => \/ UserCleared(g)
                            \/ CascadeCleared(g)
                            \/ CalcCleared(g)
                            \/ CopyCleared(g)
      ]_vars

\* C29 witness: total held 150; price was emptied by the user and the CALC
\* of total, whose formula returned null, removed total; no field is hidden
\* and total is no dropdown.
C29_Witness ==
    /\ schema = "order"
    /\ Idle
    /\ current = [key |-> "price", old |-> "50", new |-> Absent]
    /\ answer["qty"] = "3"
    /\ answer["total"] = Absent
    /\ "total" \in passCleared
    /\ \A g \in Fields(schema) : EffectiveVisibility(schema, access, g) = "VISIBLE"

\* The condition of the firing predicate is evaluated, and is false.
ConditionFalse ==
    /\ FireStep
    /\ ~SkippedByMode
    /\ ~Fails(FiringPredicate, answer)
    /\ ~Holds(FiringPredicate.condition, answer)

\* A predicate without a condition is fired and can be evaluated.
UnconditionalFires ==
    /\ FireStep
    /\ ~SkippedByMode
    /\ FiringPredicate.condition = Always
    /\ ~Fails(FiringPredicate, answer)

\* What the action of predicate p of field f does to the engine state.
Applied(f, p, st) ==
    CASE p.action = "APPLY_ACCESS_MATRIX" -> ExecApplyAccessMatrix(schema, f, p, st)
      [] p.action = "CALC"                -> ExecCalc(schema, f, p, st)
      [] p.action = "COPY"                -> ExecCopy(schema, f, p, st)
      [] p.action = "OPTION_FILTER"       -> ExecOptionFilter(schema, f, p, st)
      [] p.action = "ASYNC_CALC"          -> ExecAsyncCalc(schema, f, p, st)
      [] p.action = "VALIDATE"            -> ExecValidate(schema, f, p, st)

\* C30 (no automatic revert): a firing whose condition evaluates to false is
\* skipped: the access state, the value and the options of the field, and of
\* every other field, are exactly as before, nothing is requested and no
\* diagnostic is recorded, so what an earlier true firing applied stays in
\* force; a firing whose evaluation fails records a diagnostic and applies
\* nothing; and a predicate without a condition always executes its action
\* when it is fired.
C30_NoAutomaticRevert ==
    [][ /\ ConditionFalse =>
              /\ access' = access
              /\ answer' = answer
              /\ options' = options
              /\ fetchPending' = fetchPending
              /\ diagnostics' = diagnostics
        /\ (FireStep /\ ~SkippedByMode /\ Fails(FiringPredicate, answer)) =>
              /\ access' = access
              /\ answer' = answer
              /\ options' = options
              /\ diagnostics' = Append(diagnostics, Diagnostic(FiringField, FiringPredicate))
        /\ UnconditionalFires =>
              LET st == Applied(FiringField, FiringPredicate, EngineState)
              IN /\ access' = st.access
                 /\ answer' = ApplyGate(schema, st.answer, st.access)
                 /\ options' = st.options
                 /\ fetchPending' = st.pending
                 /\ validation' = st.validation
                 /\ diagnostics' = diagnostics
      ]_vars

\* C30 witness: note became mandatory when qty was 3; qty was then changed to
\* 2, the only access predicate of note (qty > 2) was skipped, and note is
\* still mandatory; its unconditional COPY executed and note holds 2.
C30_Witness ==
    /\ schema = "orderRaw"
    /\ Idle
    /\ current = [key |-> "qty", old |-> "3", new |-> "2"]
    /\ access["note"].mandatory
    /\ answer["note"] = "2"
    /\ diagnostics = <<>>

\* The fields whose value this step changes.
ChangedFields == {g \in Fields(schema) : answer'[g] # answer[g]}

\* The fields this step adds at the end of the worklist.
Scheduled == SubSeq(worklist', Len(worklist) + 1, Len(worklist'))

\* C31 (chained triggering): when the firing of a predicate changes the value
\* of a field D (its own field, or a field the gate clears), every existing
\* field in D's dependentKeys is added to the worklist of the running pass,
\* and nothing else is added: a firing that changes no value schedules
\* nothing. A scheduled field leaves the worklist only from its head, after
\* all its predicates have fired, so it is re-evaluated later in the pass.
C31_ChainedTriggering ==
    [][ /\ FireStep =>
              /\ Len(worklist') >= Len(worklist)
              /\ SubSeq(worklist', 1, Len(worklist)) = worklist
              /\ \A D \in ChangedFields :
                    \A k \in Range(DependentKeys(schema, D)) \cap Fields(schema) :
                        k \in Range(Scheduled)
              /\ \A k \in Range(Scheduled) :
                    \E D \in ChangedFields : k \in Range(DependentKeys(schema, D))
              /\ answer'[FiringField] = answer[FiringField]
                    => \A k \in Range(Scheduled) :
                          \E D \in ChangedFields \ {FiringField} :
                              k \in Range(DependentKeys(schema, D))
        /\ (worklist # <<>> /\ Len(worklist') < Len(worklist)) =>
              /\ worklist' = Tail(worklist)
              /\ predIdx > Len(Predicates(schema, Head(worklist)))
              /\ answer' = answer
      ]_vars

\* C31 witness: state was changed while district held a value; district's
\* OPTION_FILTER has just cleared district, and fullAddress, already scheduled
\* as a dependent of state, is scheduled again as a dependent of district.
C31_Witness ==
    /\ schema = "address"
    /\ current.key = "state"
    /\ "district" \in passCleared
    /\ worklist = <<"district", "fullAddress", "fullAddress">>
    /\ predIdx = 2

\* C31: state was changed while district held no value; district's
\* OPTION_FILTER has fired, district is unchanged, and fullAddress is
\* scheduled once only.
C31_Unchanged ==
    /\ schema = "address"
    /\ current.key = "state"
    /\ current.new # Absent
    /\ answer["district"] = Absent
    /\ passCleared = {}
    /\ worklist = <<"district", "fullAddress">>
    /\ predIdx = 2

\* C32 (selection within options): whenever no propagation and no fetch is
\* pending, every field that has an OPTION_FILTER predicate and holds a
\* value holds one of the values of its current option set, and its parent
\* holds a value.
C32_SelectionWithinOptions ==
    (phase = "open" /\ Idle)
        => \A f \in Fields(schema) :
              LET p == FilterParent(schema, f) IN
              (p # "none" /\ answer[f] # Absent)
                  => /\ answer[f] \in options[f]
                     /\ answer[p] # Absent

\* C32 witness: Karnataka was chosen after Maharashtra, district was cleared
\* and refetched, and the user has picked a district among the new options.
C32_Witness ==
    /\ schema = "address"
    /\ Idle
    /\ current.key = "district"
    /\ answer["state"] = "Karnataka"
    /\ answer["district"] = "Bengaluru"
    /\ options["district"] = {"Bengaluru"}

\* The line item rows that exist: <<i, j>> for row j of order i.
LineRows ==
    {b \in (0..MaxRows) \X (0..MaxRows) :
        b[1] < Len(orders) /\ b[2] < Len(orders[b[1] + 1].lineItems)}

Line(os, b) == os[b[1] + 1].lineItems[b[2] + 1]

\* C33 (row isolation): the CALC of amount fired for row j of order i reads
\* rate of order i and qty of row j of order i, and writes amount of that row
\* only: every other row, every rate and every qty is as before, whatever
\* rows the same pass has evaluated or has still to evaluate.
C33_RowIsolation ==
    [][ (rowWork # <<>> /\ rowWork' = Tail(rowWork)) =>
          LET b == Head(rowWork)
              rate == orders[b[1] + 1].rate
              qty == Line(orders, b).qty
          IN /\ Len(orders') = Len(orders)
             /\ \A i \in 1..Len(orders) :
                   /\ orders'[i].rate = orders[i].rate
                   /\ Len(orders'[i].lineItems) = Len(orders[i].lineItems)
             /\ \A c \in LineRows \ {b} : Line(orders', c) = Line(orders, c)
             /\ Line(orders', b).qty = qty
             /\ Line(orders', b).amount =
                    IF Absent \in {rate, qty} THEN Line(orders, b).amount
                    ELSE FormatNumber(NumberOf(rate) * NumberOf(qty))
      ]_vars

\* C33 witness: rate of the second order was edited; the pass has evaluated
\* its first row (2 at 50 is 100) and has still to evaluate its second row,
\* while the rows of the first order are as they were.
C33_Witness ==
    /\ Len(orders) = 2
    /\ rowEdit = [key |-> "rate", bindings |-> <<1>>]
    /\ rowWork = << <<1, 1>> >>
    /\ orders[1].lineItems # <<>>
    /\ orders[2].lineItems[1] = [qty |-> "2", amount |-> "100"]
    /\ orders[2].lineItems[2] = [qty |-> "3", amount |-> Absent]

\* The gate above f opens in this step: some container of f was GONE and
\* every container of f is VISIBLE afterwards.
GateReopens(f) ==
    /\ \E a \in Ancestors(schema, f) : access[a].visibility = "GONE"
    /\ \A a \in Ancestors(schema, f) : access'[a].visibility = "VISIBLE"

\* The step writes f: the user's edit of f is accepted, a predicate of f
\* fires, or the call of f's ASYNC_CALC returns.
Writes(f) ==
    \/ TakeStep /\ Head(editQueue).key = f
    \/ FireStep /\ FiringField = f
    \/ SettleStep(f)

\* C34 (gate reopening): in the step in which the gate above a field opens
\* again, the field's effective visibility is the visibility of its own
\* access state and the field still holds no value; and a field without a
\* value gets one only in a step that writes it: an accepted edit of the
\* field, a firing of one of its predicates, or the return of its call.
C34_GateReopening ==
    [][ \A f \in Fields(schema) :
          /\ GateReopens(f) =>
                /\ EffectiveVisibility(schema, access', f) = access'[f].visibility
                /\ answer'[f] = Absent
          /\ (answer[f] = Absent /\ answer'[f] # Absent) => Writes(f)
      ]_vars

\* C34 witness: hasVehicle went from No back to Yes; the predicate of
\* vehicleDetails has made the section VISIBLE again after it was GONE, the
\* pass is over, and vehicleType and regOwner hold no value although owner
\* is set.
C34_Witness ==
    /\ schema = "vehicle"
    /\ Idle
    /\ current = [key |-> "hasVehicle", old |-> "No", new |-> "Yes"]
    /\ lastFiring.key = "vehicleDetails"
    /\ lastFiring.prior.visibility = "GONE"
    /\ access["vehicleDetails"].visibility = "VISIBLE"
    /\ EffectiveVisibility(schema, access, "regOwner") = "VISIBLE"
    /\ answer["owner"] # Absent
    /\ answer["vehicleType"] = Absent
    /\ answer["regOwner"] = Absent

\* The getMaster call of caller c is between inflightRequests.set and its
\* finally block for the given key.
Fetching(c, key) ==
    /\ callers[c].pc \in {"fetching", "persistSet"}
    /\ buildCacheKey(callers[c].config) = key

\* The row sets held by the memory cache and by the persistent cache.
StoredData ==
    {memoryCache[i].data : i \in 1..Len(memoryCache)}
        \cup {persistentCache[k].data : k \in {x \in CacheKeys : persistentCache[x] # NoEntry}}

MissingKeys(s, f) == Range(DependentKeys(s, f)) \ Fields(s)

\* The step accepts the edit at the head of the queue.
AcceptStep ==
    /\ TakeStep
    /\ Editable(schema, Head(editQueue).key, Head(editQueue).value,
                answer, access, options, fetchPending)

\* C36 (missing dependent key): a dependentKeys entry that names no field of
\* the schema does not make build reject the schema; when the edit of a field
\* with such an entry is accepted, exactly its dependent keys that name a
\* field are scheduled, the missing one is not, and no error is recorded; and
\* no step schedules or records an error for a key that is not a field.
C36_MissingDependentKey ==
    [][ /\ (phase = "unbuilt" /\ phase' = "rejected") => CycleExists(schema)
        /\ AcceptStep =>
              LET f == Head(editQueue).key IN
              /\ \A k \in Range(DependentKeys(schema, f)) :
                    k \in Range(worklist') <=> k \in Fields(schema)
              /\ Range(worklist') \subseteq Range(DependentKeys(schema, f))
              /\ diagnostics' = <<>>
        /\ Range(worklist') \subseteq Fields(schema)
        /\ \A i \in 1..Len(diagnostics') : diagnostics'[i].key \in Fields(schema)
      ]_vars

\* C36 witness: price, whose dependentKeys name the missing field discount
\* before total, was set for the first time in an open session; the pass is
\* over, total has been calculated from it and no error was recorded.
C36_Witness ==
    /\ schema = "orderRaw"
    /\ MissingKeys(schema, "price") = {"discount"}
    /\ phase = "open"
    /\ Idle
    /\ current = [key |-> "price", old |-> Absent, new |-> "50"]
    /\ answer["qty"] = "2"
    /\ answer["total"] = "100"
    /\ diagnostics = <<>>

\* C37 (SubmitDialog status machine): status changes only from idle to
\* loading by a submit with both inputs filled, from loading to success or
\* error when the request settles, from error to idle, and to idle by the
\* delayed reset of a close; the dialog does not close while status is
\* loading; and status leaves loading only when the request in flight settles.
C37_StatusMachine ==
    [][ /\ status' # status =>
              \/ /\ status = "idle" /\ status' = "loading"
                 /\ groupId # "" /\ authToken # ""
              \/ /\ status = "loading" /\ status' \in {"success", "error"}
                 /\ inflight' < inflight
              \/ status = "error" /\ status' = "idle"
              \/ status' = "idle" /\ resetTimers' < resetTimers
        /\ status = "loading" => open' = open
        /\ (status = "loading" /\ status' # "loading") => inflight' < inflight
      ]_vars

\* C37: a submission is loading in the reopened dialog while the delayed
\* reset of the previous close is still to run.
C37_ResetPendingWhileLoading ==
    /\ open
    /\ status = "loading"
    /\ inflight = 1
    /\ resetTimers > 0

\* The step calls onSchemaUpdate.
UpdatesSchema == schemaUpdates' # schemaUpdates

\* The step sends a message.
Sends ==
    /\ Len(messages') = Len(messages) + 1
    /\ messages'[Len(messages')].role = "user"

\* C38 (a schema is applied at most once per reply): onSchemaUpdate is called
\* only in a step after which the chat status is ready and the last message
\* is an assistant message whose text holds a schema that parses, and once
\* per step; no assistant message id is applied twice between two clears of
\* the chat; and a message is sent only while no reply is submitted or
\* streaming and with an input that is not blank.
C38_SchemaAppliedOnce ==
    [][ /\ UpdatesSchema =>
              /\ chatStatus' = "ready"
              /\ messages' # <<>>
              /\ LET lastMessage == messages'[Len(messages')] IN
                    /\ lastMessage.role = "assistant"
                    /\ lastMessage.text \in {"schemaBlock", "formBlock"}
                    /\ schemaUpdates' = Append(schemaUpdates,
                                               [id |-> lastMessage.id, clears |-> clears'])
        /\ \A i, j \in 1..Len(schemaUpdates') :
              schemaUpdates'[i] = schemaUpdates'[j] => i = j
        /\ Sends =>
              /\ chatStatus \notin {"submitted", "streaming"}
              /\ input \notin {"", "  "}
      ]_vars

\* C38 witness: the first reply carried a json:schema block and was applied;
\* the second reply, a json block of a form, has been applied too, each once.
C38_Witness ==
    /\ chatStatus = "ready"
    /\ Len(messages) = 4
    /\ messages[2].text = "schemaBlock"
    /\ messages[4].text = "formBlock"
    /\ schemaUpdates = <<[id |-> messages[2].id, clears |-> 0],
                         [id |-> messages[4].id, clears |-> 0]>>
    /\ lastProcessedMessageRef = messages[4].id

\* Operations started and not yet recorded in context.operations.
OpenOperations == started - Len(operations)

\* C39 (WideEvent operation spans): at most one operation is open at a time,
\* and it is currentOperation; starting an operation while another is open
\* first records the open one with status success; endOperation with no open
\* operation changes nothing; and after emit no operation is open and the
\* entries of operations are the operations started so far, in the order in
\* which they were started, each with status success or error.
C39_OperationSpans ==
    [][ /\ OpenOperations' = IF currentOperation' = NoOperation THEN 0 ELSE 1
        /\ (started' = started + 1 /\ currentOperation # NoOperation) =>
              /\ operations' = Append(operations, [currentOperation EXCEPT !.status = "success"])
              /\ currentOperation'.status = "started"
        /\ (started' = started /\ emitted' = emitted /\ currentOperation = NoOperation) =>
              /\ operations' = operations
              /\ currentOperation' = NoOperation
        /\ emitted' = emitted + 1 =>
              /\ currentOperation' = NoOperation
              /\ Len(operations') = started'
              /\ \A i \in 1..Len(operations') :
                    /\ operations'[i].status \in {"success", "error"}
                    /\ operations'[i].startTime = i
      ]_vars

\* C39 witness: three operations were started; the first was still open when
\* the second was started, the second was ended with error, and the third
\* was still open at emit.
C39_Witness ==
    /\ emitted = 1
    /\ currentOperation = NoOperation
    /\ Len(operations) = 3
    /\ operations[1].status = "success"
    /\ operations[2].status = "error"
    /\ operations[3].status = "success"
    /\ \A i \in 1..3 : operations[i].startTime = i

=============================================================================
